---- MODULE Spec2Model ----
(***************************************************************************)
(* Differential-drive motor control of waffle-car: the MotorControl facade *)
(* (motor_control.py) above the ODriveUART serial link (odrive_uart.py)    *)
(* and a register model of the dual-axis controller behind the link.       *)
(*                                                                         *)
(* A facade method is one atomic action.  Inside an action the Python code *)
(* is evaluated statement by statement on a "machine" record m; because a  *)
(* serial operation may succeed or fail, every modelled function maps one  *)
(* machine to the SET of machines it can end in.  m.exc is a pending       *)
(* Python exception: Then skips the rest of a block while it is set and    *)
(* TryExcept is the except clause that clears it.                          *)
(*                                                                         *)
(* Numbers are fixed point: m/s and rad/s in 1/100000, rpm in 1/1000 and   *)
(* rotations per second on the wire in 1/10000 (the four decimals of the   *)
(* ':.4f' the code formats with), so that what the four decimals lose of a *)
(* velocity, up to 0.00003 m/s, is not below the model's resolution.       *)
(***************************************************************************)
EXTENDS Integers, Sequences, FiniteSets, TLC

VARIABLES
    is_idle,        \* MotorControl.is_idle
    cycle_count,    \* MotorControl.cycle_count
    has_mc,         \* hasattr(self, 'motor_controller')
    hw,             \* controller registers: hw[axis][register]
    link_up,        \* the serial device is present and answering
    incidents,      \* incidents (serial failures, axis faults) still to come
    in_flight,      \* reply line of a timed-out query still on its way (<<>>: none)
    polled_last,    \* the latest set_linear_angular_velocities call polled the error registers
    recovery_failed,\* the last reset_and_initialize_motors logged "ERROR re-initializing"
    pc,             \* "ready": the caller may call; "returned": a call has just returned
    call,           \* the call that has just returned: name, arguments, result
    pre,            \* facade and register state when that call was entered
    trace,          \* serial operations attempted during that call, in order
    app,            \* the application that runs the facade ("none": a bare caller)
    lock,           \* holder of the input object's threading.Lock ("free": nobody)
    current_key,    \* KeyboardController.current_key
    key_pressed,    \* KeyboardController.key_pressed
    running,        \* KeyboardController.running
    at,             \* position of every thread body and callback
    left,           \* serial exchanges the facade call of a task has still to make
    exiting,        \* the main thread is in its finally clause
    on_link,        \* the tasks that have written a request and await its reply
    now,            \* time.time(), in tenths of a second since the node was built
    last_command_time,  \* ControlNode.last_command_time
    signalled,      \* SIGINT or SIGTERM has been delivered and handled
    stop_calls,     \* who has called stop() on the MotorControl instance
    current_linear, \* main's current_linear and current_angular once they are
    current_angular,\* below 2^-1022: in units of 2^-1074, the smallest double
    pad,            \* the game controller as pygame reports it: axes and buttons
    controller_input,   \* the fields of backshot2's ControllerInput object
    loop,           \* the locals of backshot2's main loop
    device,         \* the joystick of test_remote: plugged, stick, button B
    remote          \* the fields of test_remote's TestRemoteController

facadeVars == <<is_idle, cycle_count, has_mc, hw, link_up, incidents, in_flight,
                polled_last, recovery_failed, pc, call, pre, trace>>
appVars == <<app, lock, current_key, key_pressed, running, at, left, exiting, on_link>>
nodeVars == <<now, last_command_time>>
exitVars == <<signalled, stop_calls>>
loopVars == <<current_linear, current_angular>>
padVars == <<pad, controller_input, loop>>
remoteVars == <<device, remote>>
driverVars == <<nodeVars, exitVars, loopVars, padVars, remoteVars>>
vars == <<facadeVars, appVars, driverVars>>

----------------------------------------------------------------------------
(* Bounds of the model *)

\* velocity commands carried out, after which the caller issues no more
MaxCycle == 21
\* incidents in one run: a failed serial operation, a lost reply, the loss
\* of the serial device, an axis fault
MaxIncidents == 1
\* serial exchanges of one facade call, as far as the threads are concerned
MaxExchanges == 3
\* the grid of the yaw rates the wheel kinematics is applied to (0.004 rad/s)
YawStep == 400
\* how far beyond the maxima the commands of the kinematics go (1.0 m/s and
\* 1.0 rad/s); the grid of its linear velocities
Overdrive == 100000
\* the grid of the wheel velocities sent and read back (0.0025 m/s)
SpeedStep == 250
\* error registers up to this value are printed and parsed
MaxErrorRegister == 255
\* the control node's clock stops here (tenths of a second): long enough for
\* a command, a watchdog tick within the timeout of it and one beyond
MaxClock == 14
\* velocity commands the control node's callbacks make in a run
MaxCommands == 4
\* the smoothed commands are followed from this many units of 2^-1074 down
MaxSubnormal == 12
\* how far the player pushes a stick or pulls a trigger (hundredths of full)
StickPush == 50

----------------------------------------------------------------------------
(* Configuration (constants.py, imported as CFG, is not part of src/) *)

MOTOR_CONTROL_LEFT_MOTOR_AXIS == 0
MOTOR_CONTROL_RIGHT_MOTOR_AXIS == 1
MOTOR_CONTROL_LEFT_MOTOR_DIR == 1
MOTOR_CONTROL_RIGHT_MOTOR_DIR == -1
\* 4.0 m/s and 8.0 rad/s
MOTOR_CONTROL_MAX_SPEED_LINEAR_MPS == 400000
MOTOR_CONTROL_MAX_SPEED_ANGULAR_RADPS == 800000
\* 0.5 m, in mm
ROBOT_WHEEL_DIST_M == 500
\* wheel circumference 2 * pi * ROBOT_WHEEL_RADIUS_M in mm (radius 0.085 m)
WHEEL_CIRCUMFERENCE == 534

(* Program constants *)
AXIS_STATE_CLOSED_LOOP_CONTROL == 8
AXIS_STATE_IDLE == 1
HEALTH_CHECK_PERIOD == 20
CONTROL_MODE_VELOCITY == 2
CONTROL_MODE_TORQUE == 1
INPUT_MODE_PASSTHROUGH == 2
INPUT_MODE_VEL_RAMP == 1
VEL_RAMP_RATE == 100
VEL_LIMIT == 20
CURRENT_LIMIT == 40

Axes == {0, 1}
Registers == {"error", "requested_state", "input_vel", "control_mode",
              "input_mode", "vel_ramp_rate", "vel_limit", "current_lim"}

\* register values of a controller nothing has been written to
PowerOnRegisters == [r \in Registers |-> 0]

\* error bitmask values the environment can raise on an axis
ErrorCodes == {1}

\* velocity commands (linear and angular, in 1/100000 m/s and rad/s): those of the keyboard
\* driver (stop, forward at 0.5 m/s, turn at 1.0 rad/s) and two beyond the
\* configured maxima, one at each extreme
Commands == {<<0, 0>>, <<50000, 0>>, <<0, 100000>>, <<500000, 900000>>,
             <<-500000, -900000>>}

----------------------------------------------------------------------------
(* Text of the ASCII protocol: a reply line is a sequence of characters *)

DigitChar(d) == <<"0", "1", "2", "3", "4", "5", "6", "7", "8", "9">>[d + 1]

IsDigit(c) == c \in {"0", "1", "2", "3", "4", "5", "6", "7", "8", "9"}

DigitValue(c) == CHOOSE d \in 0..9 : DigitChar(d) = c

RECURSIVE NatText(_)
NatText(n) == IF n < 10 THEN <<DigitChar(n)>>
              ELSE NatText(n \div 10) \o <<DigitChar(n % 10)>>

\* how the controller prints a number
NumText(n) == IF n < 0 THEN <<"-">> \o NatText(-n) ELSE NatText(n)

HexChar(d) == <<"0", "1", "2", "3", "4", "5", "6", "7", "8", "9",
                "a", "b", "c", "d", "e", "f">>[d + 1]

RECURSIVE HexNat(_)
HexNat(n) == IF n < 16 THEN <<HexChar(n)>>
             ELSE HexNat(n \div 16) \o <<HexChar(n % 16)>>

\* the ways a controller can print an error register: as a decimal number,
\* as hexadecimal with the 0x prefix, as bare hexadecimal
Formats == {"decimal", "0x", "hex"}

FormatText(n, format) ==
    IF format = "decimal" THEN NumText(n)
    ELSE IF format = "0x" THEN <<"0", "x">> \o HexNat(n)
    ELSE HexNat(n)

RECURSIVE DigitsValue(_, _)
DigitsValue(s, acc) == IF s = <<>> THEN acc
                       ELSE DigitsValue(Tail(s), acc * 10 + DigitValue(Head(s)))

\* ''.join(c for c in response if c.isdigit())
cleaned_response(s) == SelectSeq(s, IsDigit)

\* int(text) of a digit string raises ValueError exactly when it is empty
IntOk(s) == s # <<>> /\ \A i \in 1..Len(s) : IsDigit(s[i])

\* float(text): an optional sign and at least one digit; ValueError otherwise
FloatOk(s) == /\ s # <<>>
              /\ IF Head(s) = "-" THEN IntOk(Tail(s)) ELSE IntOk(s)

FloatValue(s) == IF Head(s) = "-" THEN -DigitsValue(Tail(s), 0)
                 ELSE DigitsValue(s, 0)

RECURSIVE SplitSpace(_, _, _)
\* text.split(' ')
SplitSpace(s, cur, acc) ==
    IF s = <<>> THEN Append(acc, cur)
    ELSE IF Head(s) = " " THEN SplitSpace(Tail(s), <<>>, Append(acc, cur))
    ELSE SplitSpace(Tail(s), Append(cur, Head(s)), acc)

\* n / d rounded to the nearest integer (ties away from zero)
RoundDiv(n, d) == IF n >= 0 THEN (2 * n + d) \div (2 * d)
                  ELSE -((2 * (-n) + d) \div (2 * d))

----------------------------------------------------------------------------
(* The machine a call is evaluated on, and Python's control flow *)

\* a facade call starts with the object state, an empty trace and no exception
Enter == [is_idle |-> is_idle, cycle_count |-> cycle_count, has_mc |-> has_mc,
          hw |-> hw, link_up |-> link_up, incidents |-> incidents,
          in_flight |-> in_flight, polled_last |-> polled_last,
          recovery_failed |-> recovery_failed,
          trace |-> <<>>, exc |-> FALSE, returned |-> FALSE, struck |-> FALSE,
          reply |-> <<>>, val |-> <<0, 0>>, flag |-> FALSE, ret |-> 0,
          recoveries |-> 0]

\* raise
Raise(m) == [m EXCEPT !.exc = TRUE]

\* return (from the facade method being evaluated)
Return(m) == [m EXCEPT !.returned = TRUE]

\* print(...) / self.logger.info(...): the message is kept in the trace, in
\* order with the serial operations
Say(m, message) ==
    {[m EXCEPT !.trace = Append(@, [c |-> "log", a |-> 0, r |-> message,
                                     v |-> 0, ok |-> TRUE, reply |-> <<>>])]}

\* statement sequencing: the next statement F runs on every machine that
\* has neither raised nor returned
Then(S, F(_)) == UNION {IF x.exc \/ x.returned THEN {x} ELSE F(x) : x \in S}

\* try: S  except Exception: H
TryExcept(S, H(_)) == UNION {IF x.exc THEN H([x EXCEPT !.exc = FALSE]) ELSE {x} : x \in S}

----------------------------------------------------------------------------
(* The controller behind the link *)

W(axis, reg, value) == [c |-> "w", a |-> axis, r |-> reg, v |-> value]
R(axis, reg) == [c |-> "r", a |-> axis, r |-> reg, v |-> 0]
F(axis) == [c |-> "f", a |-> axis, r |-> "", v |-> 0]

\* what a delivered command does to the registers
Deliver(h, cmd) ==
    IF cmd.c = "w" /\ cmd.r \in Registers THEN [h EXCEPT ![cmd.a][cmd.r] = cmd.v]
    ELSE h

\* the line the controller answers a query with: a register as a decimal
\* number; for 'f' the position (0) and the velocity, which is the setpoint
HardwareReply(h, cmd) ==
    IF cmd.c = "f"
        THEN NumText(0) \o <<" ">> \o NumText(h[cmd.a]["input_vel"])
    ELSE IF cmd.r \in Registers THEN NumText(h[cmd.a][cmd.r])
    ELSE NumText(0)

\* lines of noise a reply can be replaced by: text with no digit in it
GarbledReplies == {<<"?">>}

\* one attempted serial operation as the trace keeps it: the command, whether
\* it completed without raising, and the reply line it returned
Attempt(cmd, completed, reply) ==
    [c |-> cmd.c, a |-> cmd.a, r |-> cmd.r, v |-> cmd.v, ok |-> completed,
     reply |-> reply]

\* an incident can strike a serial operation while the run has incidents
\* left and none has struck in the same call yet: what else fails in that
\* call fails because the device is gone
CanStrike(m) == m.incidents > 0 /\ ~m.struck

Strike(m) == [m EXCEPT !.incidents = @ - 1, !.struck = TRUE]

----------------------------------------------------------------------------
(* odrive_uart.py *)

\* bus.reset_input_buffer(); bus.write(...); for 'r' and 'f' commands
\* bus.readline().decode('ascii').strip().  The write raises when the device
\* is gone, and decode raises on bytes that are not ASCII; a reply that does
\* not arrive within the timeout reads as '', and noise that is ASCII is
\* returned as it is.  The reply of a timed-out query is lost or arrives
\* late: a line in flight that arrives before reset_input_buffer is
\* discarded by it, one that arrives after the reset is the line readline
\* returns (the answer proper then waits in the buffer for the next reset).
\* A line in flight arrives no later than the next exchange.  The method is
\* only reached through self.motor_controller, whose absence raises
\* AttributeError at the call site.
send_command(m, cmd) ==
    IF ~m.has_mc THEN {Raise(m)}
    ELSE
    LET isQuery == cmd.c \in {"r", "f"}
        pending == m.in_flight # <<>>
        answer == IF isQuery THEN HardwareReply(m.hw, cmd) ELSE <<>>
        returns(reply, late) ==
            [m EXCEPT !.trace = Append(@, Attempt(cmd, TRUE, reply)),
                      !.hw = Deliver(@, cmd),
                      !.reply = reply,
                      !.in_flight = late]
        answered == {returns(answer, <<>>)}
        stale == IF pending /\ isQuery THEN {returns(m.in_flight, <<>>)} ELSE {}
        failed == Raise([m EXCEPT !.trace = Append(@, Attempt(cmd, FALSE, <<>>))])
        glitch == Strike(failed)
        lost == [glitch EXCEPT !.link_up = FALSE]
        timeout == {Strike(returns(<<>>, late)) : late \in {<<>>, answer}}
        garbled == {Strike(returns(g, <<>>)) : g \in GarbledReplies}
    IN  IF ~m.link_up THEN {failed}
        ELSE answered \cup stale
             \cup (IF CanStrike(m) THEN {glitch, lost} ELSE {})
             \cup (IF CanStrike(m) /\ isQuery THEN timeout \cup garbled ELSE {})

\* ODriveUART.__init__: serial.Serial(...) opens the port and raises when
\* the device is not there; the caller binds the new object on success.
\* Nothing closes a port: the object the facade holds (has_mc) keeps its own
\* open until the new one is bound in its place and the old one collected.
\* v is the number of ports open once this one is.
ODriveUART(m) ==
    LET open == [c |-> "open", a |-> 0, r |-> "", v |-> IF m.has_mc THEN 2 ELSE 1]
        opened == [m EXCEPT !.trace = Append(@, Attempt(open, TRUE, <<>>)),
                            !.has_mc = TRUE]
        failed == Raise([m EXCEPT !.trace = Append(@, Attempt(open, FALSE, <<>>))])
        glitch == Strike(failed)
        lost == [glitch EXCEPT !.link_up = FALSE]
    IN  IF ~m.link_up THEN {failed}
        ELSE {opened} \cup (IF CanStrike(m) THEN {glitch, lost} ELSE {})

\* error_code, error_name = get_errors(axis): -1 when the reply has no digit
get_errors(m, axis) ==
    Then(send_command(m, R(axis, "error")),
         LAMBDA x : LET cleaned == cleaned_response(x.reply)
                    IN  {[x EXCEPT !.ret = IF IntOk(cleaned) THEN DigitsValue(cleaned, 0)
                                           ELSE -1]})

get_errors_left(m) == get_errors(m, MOTOR_CONTROL_LEFT_MOTOR_AXIS)
get_errors_right(m) == get_errors(m, MOTOR_CONTROL_RIGHT_MOTOR_AXIS)

\* an unreadable error register counted as no error
ErrorReplyIsFault_lenient(reply) ==
    LET cleaned == cleaned_response(reply)
    IN  IF ~IntOk(cleaned) THEN FALSE ELSE DigitsValue(cleaned, 0) # 0

\* lines 89-96: the verdict of has_errors on one reply
ErrorReplyIsFault(reply) ==
    LET cleaned == cleaned_response(reply)
    IN  IF ~IntOk(cleaned) THEN TRUE ELSE DigitsValue(cleaned, 0) # 0

has_errors(m) ==
    UNION {IF x.exc THEN {x}
           ELSE IF ErrorReplyIsFault(x.reply) THEN {[x EXCEPT !.flag = TRUE]}
           ELSE UNION {IF y.exc THEN {y}
                       ELSE {[y EXCEPT !.flag = ErrorReplyIsFault(y.reply)]}
                       : y \in send_command(x, R(1, "error"))}
           : x \in send_command(m, R(0, "error"))}

\* eight queries; an unparsable reply is skipped, a decoded one only printed
dump_errors(m) ==
    Then(Then(Then(Then(Then(Then(Then(
        send_command(m, R(0, "error")),
        LAMBDA x : send_command(x, R(0, "encoder.error"))),
        LAMBDA x : send_command(x, R(0, "controller.error"))),
        LAMBDA x : send_command(x, R(0, "motor.error"))),
        LAMBDA x : send_command(x, R(1, "error"))),
        LAMBDA x : send_command(x, R(1, "encoder.error"))),
        LAMBDA x : send_command(x, R(1, "controller.error"))),
        LAMBDA x : send_command(x, R(1, "motor.error")))

enable_torque_mode(m, axis) ==
    Then(send_command(m, W(axis, "control_mode", CONTROL_MODE_TORQUE)),
         LAMBDA x : send_command(x, W(axis, "input_mode", INPUT_MODE_VEL_RAMP)))

enable_torque_mode_left(m) == enable_torque_mode(m, MOTOR_CONTROL_LEFT_MOTOR_AXIS)
enable_torque_mode_right(m) == enable_torque_mode(m, MOTOR_CONTROL_RIGHT_MOTOR_AXIS)

\* velocity mode enabled with the writes of torque mode
enable_velocity_mode_as_torque(m, axis) ==
    Then(send_command(m, W(axis, "control_mode", CONTROL_MODE_TORQUE)),
         LAMBDA x : send_command(x, W(axis, "input_mode", INPUT_MODE_VEL_RAMP)))

enable_velocity_mode(m, axis) ==
    Then(Then(Then(
        send_command(m, W(axis, "control_mode", CONTROL_MODE_VELOCITY)),
        LAMBDA x : send_command(x, W(axis, "input_mode", INPUT_MODE_PASSTHROUGH))),
        LAMBDA x : send_command(x, W(axis, "vel_ramp_rate", VEL_RAMP_RATE))),
        LAMBDA x : send_command(x, W(axis, "vel_limit", VEL_LIMIT)))

enable_velocity_mode_left(m) == enable_velocity_mode(m, MOTOR_CONTROL_LEFT_MOTOR_AXIS)
enable_velocity_mode_right(m) == enable_velocity_mode(m, MOTOR_CONTROL_RIGHT_MOTOR_AXIS)

start(m, axis) ==
    send_command(m, W(axis, "requested_state", AXIS_STATE_CLOSED_LOOP_CONTROL))

start_left(m) == start(m, MOTOR_CONTROL_LEFT_MOTOR_AXIS)
start_right(m) == start(m, MOTOR_CONTROL_RIGHT_MOTOR_AXIS)

\* rps = rpm / 60, written as f'{rps * direction:.4f}'; rpm in 1/1000
set_speed_rpm(m, axis, rpm, direction) ==
    send_command(m, W(axis, "input_vel", RoundDiv(rpm * 10, 60) * direction))

set_speed_rpm_left(m, rpm) ==
    set_speed_rpm(m, MOTOR_CONTROL_LEFT_MOTOR_AXIS, rpm, MOTOR_CONTROL_LEFT_MOTOR_DIR)

\* the right setpoint written with the left axis's direction
set_speed_rpm_right_as_left(m, rpm) ==
    set_speed_rpm(m, MOTOR_CONTROL_RIGHT_MOTOR_AXIS, rpm, MOTOR_CONTROL_LEFT_MOTOR_DIR)

set_speed_rpm_right(m, rpm) ==
    set_speed_rpm(m, MOTOR_CONTROL_RIGHT_MOTOR_AXIS, rpm, MOTOR_CONTROL_RIGHT_MOTOR_DIR)

\* the reply converted without the axis direction
get_pos_vel_undirected(m, axis, direction) ==
    Then(send_command(m, F(axis)),
         LAMBDA x : LET parts == SplitSpace(x.reply, <<>>, <<>>)
                    IN  IF Len(parts) # 2 \/ ~FloatOk(parts[1]) \/ ~FloatOk(parts[2])
                            THEN {Raise(x)}
                        ELSE {[x EXCEPT !.val =
                                <<FloatValue(parts[1]),
                                  FloatValue(parts[2]) * 6>>]})

\* pos, vel = reply.split(' '); float(pos) * direction, float(vel) * direction * 60
\* (turns and rps in 1/10000 on the wire, rpm in 1/1000 returned)
get_pos_vel(m, axis, direction) ==
    Then(send_command(m, F(axis)),
         LAMBDA x : LET parts == SplitSpace(x.reply, <<>>, <<>>)
                    IN  IF Len(parts) # 2 \/ ~FloatOk(parts[1]) \/ ~FloatOk(parts[2])
                            THEN {Raise(x)}
                        ELSE {[x EXCEPT !.val =
                                <<FloatValue(parts[1]) * direction,
                                  FloatValue(parts[2]) * direction * 6>>]})

get_pos_vel_left(m) ==
    get_pos_vel(m, MOTOR_CONTROL_LEFT_MOTOR_AXIS, MOTOR_CONTROL_LEFT_MOTOR_DIR)
get_pos_vel_right(m) ==
    get_pos_vel(m, MOTOR_CONTROL_RIGHT_MOTOR_AXIS, MOTOR_CONTROL_RIGHT_MOTOR_DIR)

set_idle(m, axis) == send_command(m, W(axis, "requested_state", AXIS_STATE_IDLE))

set_idle_left(m) == set_idle(m, MOTOR_CONTROL_LEFT_MOTOR_AXIS)
set_idle_right(m) == set_idle(m, MOTOR_CONTROL_RIGHT_MOTOR_AXIS)

check_errors(m, axis) ==
    Then(send_command(m, R(axis, "error")),
         LAMBDA x : LET cleaned == cleaned_response(x.reply)
                    IN  {[x EXCEPT !.flag = IF IntOk(cleaned)
                                                THEN DigitsValue(cleaned, 0) # 0
                                            ELSE TRUE]})

check_errors_left(m) == check_errors(m, MOTOR_CONTROL_LEFT_MOTOR_AXIS)
check_errors_right(m) == check_errors(m, MOTOR_CONTROL_RIGHT_MOTOR_AXIS)

clear_errors(m, axis) ==
    Then(send_command(m, W(axis, "error", 0)),
         LAMBDA x : send_command(x, W(axis, "requested_state",
                                      AXIS_STATE_CLOSED_LOOP_CONTROL)))

clear_errors_left(m) == clear_errors(m, MOTOR_CONTROL_LEFT_MOTOR_AXIS)
clear_errors_right(m) == clear_errors(m, MOTOR_CONTROL_RIGHT_MOTOR_AXIS)

disable_velocity_ramping(m, axis) ==
    send_command(m, W(axis, "input_mode", INPUT_MODE_PASSTHROUGH))

disable_velocity_ramping_left(m) ==
    disable_velocity_ramping(m, MOTOR_CONTROL_LEFT_MOTOR_AXIS)
disable_velocity_ramping_right(m) ==
    disable_velocity_ramping(m, MOTOR_CONTROL_RIGHT_MOTOR_AXIS)

set_current_limit(m, axis, current_limit) ==
    send_command(m, W(axis, "current_lim", current_limit))

\* float(response), None on ValueError: the value is only printed
get_velocity_ramp(m, axis) == send_command(m, R(axis, "vel_ramp_rate"))

\* the reboot the docstring announces is commented out: the body is empty
reset_odrive(m) == {m}

----------------------------------------------------------------------------
(* motor_control.py *)

\* x / RPM_TO_METERS_PER_SECOND, with RPM_TO_METERS_PER_SECOND =
\* radius * 2 * pi / 60: rpm (in 1/1000) of a velocity (in 1/100000 m/s)
MpsToRpm(mps) == RoundDiv(mps * 600, WHEEL_CIRCUMFERENCE)
\* x * RPM_TO_METERS_PER_SECOND: the velocity of rpm (in 1/1000)
RpmToMps(rpm) == RoundDiv(rpm * WHEEL_CIRCUMFERENCE, 600)

\* min(x, limit): the upper limit only
Clip_upper_only(x, limit) == IF x < limit THEN x ELSE limit

\* max(min(x, limit), -limit)
Clip(x, limit) ==
    LET lo == IF x < limit THEN x ELSE limit
    IN  IF lo > -limit THEN lo ELSE -limit

\* five queries per axis inside the method's own try/except; the replies are
\* only printed (int() of a bad reply is caught where it is parsed)
dump_motor_config(m) ==
    LET axis_config(x, axis) ==
            Then(Then(Then(Then(
                send_command(x, R(axis, "control_mode")),
                LAMBDA y : send_command(y, R(axis, "input_mode"))),
                LAMBDA y : get_velocity_ramp(y, axis)),
                LAMBDA y : send_command(y, R(axis, "current_lim"))),
                LAMBDA y : send_command(y, R(axis, "vel_limit")))
    IN  TryExcept(
            Then(axis_config(m, MOTOR_CONTROL_LEFT_MOTOR_AXIS),
                 LAMBDA x : axis_config(x, MOTOR_CONTROL_RIGHT_MOTOR_AXIS)),
            LAMBDA x : {x})

\* the modes and limits configured before the axes are started
start_motors_velocity_mode_configure_first(m) ==
    Then(Then(Then(Then(Then(Then(Then(Then(Then(Then(
        enable_velocity_mode_left(m),
        enable_velocity_mode_right),
        disable_velocity_ramping_left),
        disable_velocity_ramping_right),
        LAMBDA x : set_current_limit(x, MOTOR_CONTROL_LEFT_MOTOR_AXIS, CURRENT_LIMIT)),
        LAMBDA x : set_current_limit(x, MOTOR_CONTROL_RIGHT_MOTOR_AXIS, CURRENT_LIMIT)),
        LAMBDA x : get_velocity_ramp(x, MOTOR_CONTROL_LEFT_MOTOR_AXIS)),
        LAMBDA x : get_velocity_ramp(x, MOTOR_CONTROL_RIGHT_MOTOR_AXIS)),
        dump_motor_config),
        start_left),
        start_right)

start_motors_velocity_mode(m) ==
    Then(Then(Then(Then(Then(Then(Then(Then(Then(Then(
        start_left(m),
        start_right),
        enable_velocity_mode_left),
        enable_velocity_mode_right),
        disable_velocity_ramping_left),
        disable_velocity_ramping_right),
        LAMBDA x : set_current_limit(x, MOTOR_CONTROL_LEFT_MOTOR_AXIS, CURRENT_LIMIT)),
        LAMBDA x : set_current_limit(x, MOTOR_CONTROL_RIGHT_MOTOR_AXIS, CURRENT_LIMIT)),
        LAMBDA x : get_velocity_ramp(x, MOTOR_CONTROL_LEFT_MOTOR_AXIS)),
        LAMBDA x : get_velocity_ramp(x, MOTOR_CONTROL_RIGHT_MOTOR_AXIS)),
        dump_motor_config)

start_motors_torque_mode(m) ==
    Then(Then(Then(
        start_left(m),
        start_right),
        enable_torque_mode_left),
        enable_torque_mode_right)

\* a reset that counts as a cycle
MotorControl_reset_odrive_counted(m) == {[m EXCEPT !.cycle_count = @ + 1]}

\* MotorControl.reset_odrive: the module function, then a sleep
MotorControl_reset_odrive(m) == reset_odrive(m)

reset_and_initialize_motors(m, torque_mode) ==
    Then(Then(Say([m EXCEPT !.recoveries = @ + 1], "Starting motor reset"),
              MotorControl_reset_odrive),
         LAMBDA a :
            TryExcept(
                Then(Then(Then(Then(
                    ODriveUART(a),
                    clear_errors_left),
                    clear_errors_right),
                    LAMBDA x : IF torque_mode THEN start_motors_torque_mode(x)
                               ELSE start_motors_velocity_mode(x)),
                    LAMBDA x : {[x EXCEPT !.recovery_failed = FALSE]}),
                LAMBDA x : {[x EXCEPT !.recovery_failed = TRUE]}))

Recover(m) == reset_and_initialize_motors(m, FALSE)

\* stop() idling the axes before it zeroes their setpoints
stop_idle_first(m) ==
    TryExcept(
        Then(Then(Then(Then(
            set_idle_left(m),
            set_idle_right),
            LAMBDA x : set_speed_rpm_left(x, 0)),
            LAMBDA x : set_speed_rpm_right(x, 0)),
            LAMBDA x : {[x EXCEPT !.is_idle = TRUE]}),
        LAMBDA x : {x})

stop(m) ==
    TryExcept(
        Then(Then(Then(Then(
            set_speed_rpm_left(m, 0),
            LAMBDA x : set_speed_rpm_right(x, 0)),
            set_idle_left),
            set_idle_right),
            LAMBDA x : {[x EXCEPT !.is_idle = TRUE]}),
        LAMBDA x : {x})

\* the stop commands issued with no try around them
emergency_stop_unguarded(m) ==
    Then(Then(Then(
        set_speed_rpm_left(m, 0),
        LAMBDA x : set_speed_rpm_right(x, 0)),
        set_idle_left),
        set_idle_right)

emergency_stop(m) ==
    TryExcept(
        Then(Say(m, "EMERGENCY STOP"), stop),
        LAMBDA e1 :
            TryExcept(
                IF e1.has_mc
                    THEN Then(set_speed_rpm_left(e1, 0),
                              LAMBDA x : set_speed_rpm_right(x, 0))
                ELSE {e1},
                LAMBDA e2 :
                    TryExcept(
                        IF e2.has_mc THEN Then(set_idle_left(e2), set_idle_right)
                        ELSE {e2},
                        LAMBDA e3 : {e3})))

get_left_motor_velocity(m) ==
    TryExcept(
        Then(get_pos_vel_left(m),
             LAMBDA x : {[x EXCEPT !.ret = RpmToMps(x.val[2])]}),
        LAMBDA e : Then(Recover(e), LAMBDA x : {[x EXCEPT !.ret = 0]}))

\* the accessor answering 0.0 on a failure without running Recovery
get_right_motor_velocity_unrecovered(m) ==
    TryExcept(
        Then(get_pos_vel_right(m),
             LAMBDA x : {[x EXCEPT !.ret = RpmToMps(x.val[2])]}),
        LAMBDA e : {[e EXCEPT !.ret = 0]})

get_right_motor_velocity(m) ==
    TryExcept(
        Then(get_pos_vel_right(m),
             LAMBDA x : {[x EXCEPT !.ret = RpmToMps(x.val[2])]}),
        LAMBDA e : Then(Recover(e), LAMBDA x : {[x EXCEPT !.ret = 0]}))

\* the periodic error check going on with the command after Recovery
error_check_no_return(m) ==
    IF m.cycle_count % HEALTH_CHECK_PERIOD = 0
        THEN TryExcept(
                Then(Then(Say(m, "Performing periodic error check"), has_errors),
                     LAMBDA x :
                        IF x.flag
                            THEN Then(Then(Then(
                                    Say(x, "ERRORS DETECTED"),
                                    dump_errors),
                                    emergency_stop),
                                    Recover)
                        ELSE {x}),
                LAMBDA e : Then(Then(
                                Say(e, "ERROR checking motor errors"),
                                emergency_stop),
                                Recover))
    ELSE {m}

\* lines 183-200: the periodic error check
error_check(m) ==
    IF m.cycle_count % HEALTH_CHECK_PERIOD = 0
        THEN TryExcept(
                Then(Then(Say(m, "Performing periodic error check"), has_errors),
                     LAMBDA x :
                        IF x.flag
                            THEN Then(Then(Then(Then(
                                    Say(x, "ERRORS DETECTED"),
                                    dump_errors),
                                    emergency_stop),
                                    Recover),
                                    LAMBDA y : {Return(y)})
                        ELSE {x}),
                LAMBDA e : Then(Then(Then(
                                Say(e, "ERROR checking motor errors"),
                                emergency_stop),
                                Recover),
                                LAMBDA y : {Return(y)}))
    ELSE {m}

\* the setpoint writes with a handler that recovers without stopping first
\* and counts the cycle
command_wheels_no_stop(m, velocity_target_mps, yaw_rate_target_rad_s) ==
    LET velocity == Clip(velocity_target_mps, MOTOR_CONTROL_MAX_SPEED_LINEAR_MPS)
        yaw_rate == Clip(yaw_rate_target_rad_s, MOTOR_CONTROL_MAX_SPEED_ANGULAR_RADPS)
        angular_component == RoundDiv(ROBOT_WHEEL_DIST_M * yaw_rate, 2000)
    IN  TryExcept(
            Then(Then(Say(m, "Sending commands to motors"),
                 LAMBDA x : set_speed_rpm_left(x, MpsToRpm(velocity - angular_component))),
                 LAMBDA x : set_speed_rpm_right(x, MpsToRpm(velocity + angular_component))),
            LAMBDA e : Then(Recover([e EXCEPT !.cycle_count = @ + 1]),
                            LAMBDA y : {Return(y)}))

\* lines 207-213: (wheel_base_width_m * yaw_rate_target_rad_s) / 2 and the
\* two wheel velocities, of a command already clipped
angular_component(yaw_rate) == RoundDiv(ROBOT_WHEEL_DIST_M * yaw_rate, 2000)

left_wheel_velocity(velocity, yaw_rate) == velocity - angular_component(yaw_rate)

\* the right wheel given the left wheel's velocity
right_wheel_velocity_as_left(velocity, yaw_rate) ==
    velocity - angular_component(yaw_rate)

right_wheel_velocity(velocity, yaw_rate) == velocity + angular_component(yaw_rate)

\* lines 202-230: clip, wheel velocities, RPM, the two setpoint writes
command_wheels(m, velocity_target_mps, yaw_rate_target_rad_s) ==
    LET velocity == Clip(velocity_target_mps, MOTOR_CONTROL_MAX_SPEED_LINEAR_MPS)
        yaw_rate == Clip(yaw_rate_target_rad_s, MOTOR_CONTROL_MAX_SPEED_ANGULAR_RADPS)
        left_wheel_rpm == MpsToRpm(left_wheel_velocity(velocity, yaw_rate))
        right_wheel_rpm == MpsToRpm(right_wheel_velocity(velocity, yaw_rate))
    IN  TryExcept(
            Then(Then(Say(m, "Sending commands to motors"),
                 LAMBDA x : set_speed_rpm_left(x, left_wheel_rpm)),
                 LAMBDA x : set_speed_rpm_right(x, right_wheel_rpm)),
            LAMBDA e : Then(Then(Then(
                            Say(e, "ERROR setting motor speeds"),
                            emergency_stop),
                            Recover),
                            LAMBDA y : {Return(y)}))

\* lines 166-232: the body of the method's try block
set_velocities_body(m, velocity_target_mps, yaw_rate_target_rad_s) ==
    Then(Then(Then(Then(
        IF velocity_target_mps = 0 /\ yaw_rate_target_rad_s = 0
            THEN stop(m) ELSE {m},
        LAMBDA x :
            IF x.is_idle
                THEN Then(Then(clear_errors_left(x), clear_errors_right),
                          LAMBDA y : {[y EXCEPT !.is_idle = FALSE]})
            ELSE {x}),
        error_check),
        LAMBDA x : command_wheels(x, velocity_target_mps, yaw_rate_target_rad_s)),
        LAMBDA x : {[x EXCEPT !.cycle_count = @ + 1]})

\* the method with its exceptions left to the caller
set_velocities_unguarded(m, velocity_target_mps, yaw_rate_target_rad_s) ==
    set_velocities_body(m, velocity_target_mps, yaw_rate_target_rad_s)

set_linear_angular_velocities(m, velocity_target_mps, yaw_rate_target_rad_s) ==
    TryExcept(set_velocities_body(m, velocity_target_mps, yaw_rate_target_rad_s),
              emergency_stop)

\* MotorControl.__init__
MotorControl(m) ==
    Then(reset_and_initialize_motors([m EXCEPT !.is_idle = FALSE], FALSE),
         LAMBDA x : {[x EXCEPT !.cycle_count = 0]})

----------------------------------------------------------------------------
(* The state machine: the caller, the controller and the serial device *)

Snapshot(m) == [is_idle |-> m.is_idle, cycle_count |-> m.cycle_count,
                has_mc |-> m.has_mc, hw |-> m.hw, link_up |-> m.link_up,
                incidents |-> m.incidents, polled_last |-> m.polled_last,
                recovery_failed |-> m.recovery_failed]

\* an axis error register was polled, and answered, among the operations tr
PolledIn(tr) == \E i \in 1..Len(tr) :
                    tr[i].c = "r" /\ tr[i].r = "error" /\ tr[i].ok

\* the result of a call as its caller sees it
Result(name, args, m) ==
    [name |-> name, args |-> args, raised |-> m.exc, ret |-> m.ret,
     flag |-> m.flag, recoveries |-> m.recoveries]

NoCall == [name |-> "", args |-> <<0, 0>>, raised |-> FALSE, ret |-> 0,
           flag |-> FALSE, recoveries |-> 0]

\* the facade method name has run from the current state and ended in m
FacadeReturns(name, args, m) ==
    /\ is_idle' = m.is_idle
    /\ cycle_count' = m.cycle_count
    /\ has_mc' = m.has_mc
    /\ hw' = m.hw
    /\ link_up' = m.link_up
    /\ incidents' = m.incidents
    /\ in_flight' = m.in_flight
    /\ polled_last' = IF name = "set_linear_angular_velocities"
                       THEN PolledIn(m.trace) ELSE polled_last
    /\ recovery_failed' = m.recovery_failed
    /\ trace' = m.trace
    /\ call' = Result(name, args, m)
    /\ pre' = Snapshot(Enter)
    /\ pc' = "returned"

\* called by a bare caller
Returns(name, args, m) ==
    /\ FacadeReturns(name, args, m)
    /\ UNCHANGED <<appVars, driverVars>>

\* the bodies that run in the applications: the input thread and main() of
\* backshot.py, the three callbacks of control_node.py
Tasks == {"keyboard_thread", "controller_thread", "main", "target_velocity_callback",
          "watchdog_callback", "publish_heartbeat"}
Callbacks == {"target_velocity_callback", "watchdog_callback", "publish_heartbeat"}
\* the thread a body runs on: rclpy.spin runs every callback on the thread that calls it
ThreadOf(t) == IF t \in {"keyboard_thread", "controller_thread"} THEN t ELSE "main"
Keys == {"w", "s", "a", "d", "x", "q"}

\* the facade driven by a bare caller: no application thread exists
NoApplication ==
    /\ app = "none"
    /\ lock = "free"
    /\ current_key = "None"
    /\ key_pressed = FALSE
    /\ running = FALSE
    /\ at = [t \in Tasks |-> "off"]
    /\ left = [t \in Tasks |-> 0]
    /\ exiting = FALSE
    /\ on_link = {}

\* a game controller at rest: sticks centred (axes 0 to 3), triggers
\* released (axes 4 and 5 at -1.0), no button held; in hundredths
PadAtRest == [axes |-> <<0, 0, 0, 0, -100, -100>>,
              buttons |-> [b \in {0, 9} |-> FALSE]]

\* ControllerInput.__init__
NewControllerInput ==
    [current_command |-> "None", input_active |-> FALSE,
     left_stick_x |-> 0, left_stick_y |-> 0, right_stick_x |-> 0,
     right_stick_y |-> 0, l2_trigger |-> 0, r2_trigger |-> 0,
     buttons |-> [b \in {0, 9} |-> FALSE]]

\* get_analog_values of a ControllerInput
AnalogValues(c) ==
    [left_stick_x |-> c.left_stick_x, left_stick_y |-> c.left_stick_y,
     right_stick_x |-> c.right_stick_x, right_stick_y |-> c.right_stick_y,
     l2_trigger |-> c.l2_trigger, r2_trigger |-> c.r2_trigger]

\* main of backshot2.py, lines 176-184
NewLoop ==
    [cmd |-> "None", analog_values |-> AnalogValues(NewControllerInput),
     intensity |-> 100, target_linear |-> 0, target_angular |-> 0,
     last_command |-> "None"]

\* TestRemoteController.__init__, with no joystick attached and none
\* touched; step is what the latest round of control_loop came to, the two
\* times are kept as the differences from time.time() that the code
\* computes, which stop counting once they are beyond their thresholds
NewRemote ==
    [joystick |-> "None", connection_active |-> FALSE,
     emergency_stop_active |-> FALSE, time_since_activity |-> 0,
     since_connection_check |-> 0, step |-> "start"]

NoJoystick == [plugged |-> FALSE, stick |-> 0, button_b |-> FALSE]

\* no game controller is read
NoPad ==
    /\ pad = PadAtRest
    /\ controller_input = NewControllerInput
    /\ loop = NewLoop
    /\ device = NoJoystick
    /\ remote = NewRemote

\* no driver program runs
NoDriver ==
    /\ now = 0
    /\ last_command_time = 0
    /\ signalled = FALSE
    /\ stop_calls = {}
    /\ current_linear = 0
    /\ current_angular = 0
    /\ NoPad

PowerOn(up) == [is_idle |-> FALSE, cycle_count |-> 0, has_mc |-> FALSE,
                hw |-> [a \in Axes |-> PowerOnRegisters], link_up |-> up,
                incidents |-> MaxIncidents, in_flight |-> <<>>,
                polled_last |-> FALSE,
                recovery_failed |-> FALSE,
                trace |-> <<>>, exc |-> FALSE, struck |-> FALSE,
                returned |-> FALSE, reply |-> <<>>, val |-> <<0, 0>>,
                flag |-> FALSE, ret |-> 0, recoveries |-> 0]

Init ==
    \E up \in BOOLEAN : \E m \in MotorControl(PowerOn(up)) :
        /\ is_idle = m.is_idle
        /\ cycle_count = m.cycle_count
        /\ has_mc = m.has_mc
        /\ hw = m.hw
        /\ link_up = m.link_up
        /\ incidents = m.incidents
        /\ in_flight = m.in_flight
        /\ polled_last = FALSE
        /\ recovery_failed = m.recovery_failed
        /\ trace = m.trace
        /\ call = Result("__init__", <<0, 0>>, m)
        /\ pre = Snapshot(PowerOn(up))
        /\ pc = "returned"
        /\ NoApplication
        /\ NoDriver

SetVelocity ==
    /\ pc = "ready"
    /\ cycle_count < MaxCycle
    /\ \E cmd \in Commands :
        \E m \in set_linear_angular_velocities(Enter, cmd[1], cmd[2]) :
            Returns("set_linear_angular_velocities", cmd, m)

Stop ==
    /\ pc = "ready"
    /\ \E m \in stop(Enter) : Returns("stop", <<0, 0>>, m)

EmergencyStop ==
    /\ pc = "ready"
    /\ \E m \in emergency_stop(Enter) : Returns("emergency_stop", <<0, 0>>, m)

GetLeftVelocity ==
    /\ pc = "ready"
    /\ \E m \in get_left_motor_velocity(Enter) :
        Returns("get_left_motor_velocity", <<0, 0>>, m)

GetRightVelocity ==
    /\ pc = "ready"
    /\ \E m \in get_right_motor_velocity(Enter) :
        Returns("get_right_motor_velocity", <<0, 0>>, m)

\* the facade's public reset_and_initialize_motors(), torque_mode left False
ResetAndInitializeMotors ==
    /\ pc = "ready"
    /\ \E m \in reset_and_initialize_motors(Enter, FALSE) :
        Returns("reset_and_initialize_motors", <<0, 0>>, m)

\* the error queries of the link, called on the facade's motor_controller
HasErrors ==
    /\ pc = "ready"
    /\ has_mc
    /\ \E m \in has_errors(Enter) : Returns("has_errors", <<0, 0>>, m)

GetErrors ==
    /\ pc = "ready"
    /\ has_mc
    /\ \/ \E m \in get_errors_left(Enter) : Returns("get_errors_left", <<0, 0>>, m)
       \/ \E m \in get_errors_right(Enter) : Returns("get_errors_right", <<0, 0>>, m)

CheckErrors ==
    /\ pc = "ready"
    /\ has_mc
    /\ \/ \E m \in check_errors_left(Enter) : Returns("check_errors_left", <<0, 0>>, m)
       \/ \E m \in check_errors_right(Enter) : Returns("check_errors_right", <<0, 0>>, m)

\* the caller takes the result and goes round its loop
NextTick ==
    /\ pc = "returned"
    /\ pc' = "ready"
    /\ call' = NoCall
    /\ pre' = Snapshot(Enter)
    /\ trace' = <<>>
    /\ UNCHANGED <<is_idle, cycle_count, has_mc, hw, link_up, incidents, in_flight,
                   polled_last, recovery_failed>>
    /\ UNCHANGED <<appVars, driverVars>>

\* the controller latches an error on an axis
AxisFault ==
    /\ pc = "ready"
    /\ incidents > 0
    /\ \E a \in Axes : \E code \in ErrorCodes :
        /\ hw[a]["error"] = 0
        /\ hw' = [hw EXCEPT ![a]["error"] = code]
    /\ incidents' = incidents - 1
    /\ UNCHANGED <<is_idle, cycle_count, has_mc, link_up, in_flight, polled_last,
                   recovery_failed,
                   pc, call, pre, trace>>
    /\ UNCHANGED <<appVars, driverVars>>

\* the serial device disappears or comes back between two calls
LinkLost ==
    /\ pc = "ready"
    /\ link_up
    /\ incidents > 0
    /\ link_up' = FALSE
    /\ incidents' = incidents - 1
    /\ UNCHANGED <<is_idle, cycle_count, has_mc, hw, in_flight, polled_last,
                   recovery_failed,
                   pc, call, pre, trace>>
    /\ UNCHANGED <<appVars, driverVars>>

LinkRestored ==
    /\ pc = "ready"
    /\ ~link_up
    /\ link_up' = TRUE
    /\ UNCHANGED <<is_idle, cycle_count, has_mc, hw, incidents, in_flight, polled_last,
                   recovery_failed, pc, call, pre, trace>>
    /\ UNCHANGED <<appVars, driverVars>>

Next ==
    \/ SetVelocity
    \/ Stop
    \/ EmergencyStop
    \/ GetLeftVelocity
    \/ GetRightVelocity
    \/ ResetAndInitializeMotors
    \/ HasErrors
    \/ GetErrors
    \/ CheckErrors
    \/ NextTick
    \/ AxisFault
    \/ LinkLost
    \/ LinkRestored

Spec == Init /\ [][Next]_vars

----------------------------------------------------------------------------
(* The applications: who calls the facade, and from which thread.          *)
(* A facade call is a sequence of serial exchanges, each one a request     *)
(* written (BeginExchange) and the wait for its reply (EndExchange); the   *)
(* facade state plays no part here and stays as constructed.               *)

\* rclpy.spin (single-threaded executor) takes the next callback only when the
\* one it runs has returned
ExecutorFree_reentrant == at["main"] = "spin"
ExecutorFree == at["main"] = "spin" /\ \A cb \in Callbacks : at[cb] = "off"

\* a facade with its link open, no call made and no incident to come
QuietFacade ==
    /\ is_idle = FALSE
    /\ cycle_count = 0
    /\ has_mc = TRUE
    /\ hw = [a \in Axes |-> PowerOnRegisters]
    /\ link_up = TRUE
    /\ incidents = 0
    /\ in_flight = <<>>
    /\ polled_last = FALSE
    /\ recovery_failed = FALSE
    /\ trace = <<>>
    /\ call = NoCall
    /\ pre = Snapshot(PowerOn(TRUE))
    /\ pc = "ready"

\* the programs that construct a MotorControl and drive it
Applications == {"remote_control", "backshot", "backshot2", "controller_control",
                 "control_node"}
\* those with an input thread next to main
Threaded == {"backshot", "backshot2", "controller_control"}
\* those that look for a game controller before they start
NeedController == {"backshot2", "controller_control"}

\* the names bound in the module motor_control when its signal handler runs:
\* the imports, the two constants, the class and the handler
ModuleGlobals == {"json", "logging", "os", "time", "traceback", "signal", "sys",
                  "math", "np", "CFG", "ODriveUART", "reset_odrive",
                  "MOTOR_TURNS_TO_LINEAR_POS", "RPM_TO_METERS_PER_SECOND",
                  "MotorControl", "stop_motors_on_exit"}

\* main() has just constructed its MotorControl (the node its MotorControl)
\* and not yet entered its try statement
ApplicationInit ==
    /\ QuietFacade
    /\ app \in Applications
    /\ lock = "free"
    /\ current_key = "None"
    /\ key_pressed = FALSE
    /\ running = (app \in Threaded)
    /\ at = [t \in Tasks |-> IF t = "main" THEN "setup" ELSE "off"]
    /\ left = [t \in Tasks |-> 0]
    /\ exiting = FALSE
    /\ on_link = {}
    /\ NoDriver

\* main() between the construction of the MotorControl and its try
\* statement: the input object made, the controller looked for (main
\* returns when there is none), the input thread started; the node spun
MainSetup ==
    /\ at["main"] = "setup"
    /\ \/ at' = [at EXCEPT !["main"] = IF app = "control_node" THEN "spin" ELSE "loop",
                            !["keyboard_thread"] = IF app \in Threaded THEN "select"
                                                   ELSE "off"]
       \/ /\ app \in NeedController
          /\ at' = [at EXCEPT !["main"] = "done"]
    /\ UNCHANGED <<driverVars, facadeVars, app, lock, current_key, key_pressed, running,
                   left, exiting, on_link>>

\* main of remote_control.py: input() returns a command, and either the
\* velocity command is begun or the loop left for the finally clause
RemoteControlLoop ==
    /\ app = "remote_control"
    /\ at["main"] = "loop"
    /\ \E cmd \in Keys :
        /\ exiting' = (cmd = "q")
        /\ stop_calls' = IF cmd = "q" THEN stop_calls \cup {"finally"} ELSE stop_calls
    /\ at' = [at EXCEPT !["main"] = "calling"]
    /\ \E n \in 0..MaxExchanges : left' = [left EXCEPT !["main"] = n]
    /\ UNCHANGED <<facadeVars, app, lock, current_key, key_pressed, running, on_link,
                   nodeVars, signalled, loopVars, padVars, remoteVars>>

\* keyboard_thread: "with self.lock:" entered, with or without a key read
KeyboardThreadAcquire ==
    /\ at["keyboard_thread"] = "select"
    /\ running
    /\ lock = "free"
    /\ lock' = "keyboard_thread"
    /\ at' = [at EXCEPT !["keyboard_thread"] = "locked"]
    /\ UNCHANGED <<driverVars, facadeVars, app, current_key, key_pressed, running, left, exiting,
                   on_link>>

\* keyboard_thread: the slots written under the lock, the lock released
KeyboardThreadStore ==
    /\ at["keyboard_thread"] = "locked"
    /\ \/ \E char \in Keys : current_key' = char /\ key_pressed' = TRUE
       \/ current_key' = current_key /\ key_pressed' = FALSE
    /\ lock' = "free"
    /\ at' = [at EXCEPT !["keyboard_thread"] = "select"]
    /\ UNCHANGED <<driverVars, facadeVars, app, running, left, exiting, on_link>>

\* keyboard_thread: "while self.running" ends
KeyboardThreadExit ==
    /\ at["keyboard_thread"] = "select"
    /\ ~running
    /\ at' = [at EXCEPT !["keyboard_thread"] = "done"]
    /\ UNCHANGED <<driverVars, facadeVars, app, lock, current_key, key_pressed, running, left,
                   exiting, on_link>>

\* main of backshot.py: get_current_key enters "with self.lock:"
GetCurrentKey ==
    /\ app \in Threaded
    /\ at["main"] = "loop"
    /\ lock = "free"
    /\ lock' = "main"
    /\ at' = [at EXCEPT !["main"] = "locked"]
    /\ UNCHANGED <<driverVars, facadeVars, app, current_key, key_pressed, running, left, exiting,
                   on_link>>

\* main of backshot.py: the key taken, the lock released, and either the
\* velocity command of this round begun or the loop left for the finally clause
MainLoop ==
    /\ at["main"] = "locked"
    /\ lock' = "free"
    /\ LET cmd == IF key_pressed THEN current_key ELSE "None"
       IN  /\ exiting' = (cmd = "q")
           /\ running' = IF cmd = "q" THEN FALSE ELSE running
           /\ stop_calls' = IF cmd = "q" THEN stop_calls \cup {"finally"}
                             ELSE stop_calls
    /\ at' = [at EXCEPT !["main"] = "calling"]
    /\ \E n \in 0..MaxExchanges : left' = [left EXCEPT !["main"] = n]
    /\ UNCHANGED <<facadeVars, app, current_key, key_pressed, on_link,
                   nodeVars, signalled, loopVars, padVars, remoteVars>>

\* control_node.py: the executor runs a callback that is due; the heartbeat
\* makes no facade call
Spin ==
    /\ ExecutorFree
    /\ \E cb \in Callbacks :
        /\ at' = [at EXCEPT ![cb] = "calling"]
        /\ \E n \in 0..MaxExchanges :
            /\ cb = "publish_heartbeat" => n = 0
            /\ left' = [left EXCEPT ![cb] = n]
    /\ UNCHANGED <<driverVars, facadeVars, app, lock, current_key, key_pressed, running, exiting,
                   on_link>>

\* send_command: the request is written
BeginExchange ==
    \E t \in Tasks :
        /\ at[t] = "calling"
        /\ left[t] > 0
        /\ at' = [at EXCEPT ![t] = "exchange"]
        /\ on_link' = on_link \cup {t}
        /\ UNCHANGED <<driverVars, facadeVars, app, lock, current_key, key_pressed, running, left,
                       exiting>>

\* send_command: readline returns, with the reply or at its timeout
EndExchange ==
    \E t \in Tasks :
        /\ at[t] = "exchange"
        /\ at' = [at EXCEPT ![t] = "calling"]
        /\ left' = [left EXCEPT ![t] = @ - 1]
        /\ on_link' = on_link \ {t}
        /\ UNCHANGED <<driverVars, facadeVars, app, lock, current_key, key_pressed, running,
                       exiting>>

\* the facade call returns: the loop goes round, the callback hands back to
\* the executor, the finally clause ends the program
ReturnFromCall ==
    \E t \in Tasks :
        /\ at[t] = "calling"
        /\ left[t] = 0
        /\ at' = [at EXCEPT ![t] = IF t # "main" THEN "off"
                                   ELSE IF exiting THEN "done" ELSE "loop"]
        /\ UNCHANGED <<driverVars, facadeVars, app, lock, current_key, key_pressed, running, left,
                       exiting, on_link>>

\* SIGINT or SIGTERM: the handler runs on the main thread, between two
\* instructions of whatever runs there.  It calls stop() on what the name
\* motor_control is bound to in its module; nothing is, the NameError is
\* caught and printed, and sys.exit(0) unwinds the main thread: into the
\* finally clause of the try statement it is in, which calls stop() on the
\* facade, or out of the program when it is in none.
stop_motors_on_exit ==
    /\ at["main"] \notin {"off", "done"}
    /\ ~exiting
    /\ signalled' = TRUE
    /\ LET handler == IF "motor_control" \in ModuleGlobals
                       THEN {"stop_motors_on_exit"} ELSE {}
           inTry == at["main"] # "setup"
       IN  /\ stop_calls' = stop_calls \cup handler
                             \cup (IF inTry THEN {"finally"} ELSE {})
           /\ exiting' = inTry
           /\ at' = [t \in Tasks |-> IF t = "main"
                                      THEN (IF inTry THEN "calling" ELSE "done")
                                      ELSE IF t \in Callbacks THEN "off" ELSE at[t]]
           /\ \E n \in 0..MaxExchanges :
                left' = [t \in Tasks |-> IF t = "main" /\ inTry THEN n ELSE 0]
    /\ running' = FALSE
    /\ lock' = IF lock = "main" THEN "free" ELSE lock
    /\ on_link' = {t \in on_link : ThreadOf(t) # "main"}
    /\ UNCHANGED <<facadeVars, app, current_key, key_pressed, nodeVars, loopVars, padVars, remoteVars>>

ApplicationNext ==
    \/ MainSetup
    \/ RemoteControlLoop
    \/ KeyboardThreadAcquire
    \/ KeyboardThreadStore
    \/ KeyboardThreadExit
    \/ GetCurrentKey
    \/ MainLoop
    \/ Spin
    \/ BeginExchange
    \/ EndExchange
    \/ ReturnFromCall
    \/ stop_motors_on_exit

ApplicationSpec == ApplicationInit /\ [][ApplicationNext]_vars

----------------------------------------------------------------------------
(* control_node.py with its clock: the callbacks make their facade calls   *)
(* on the facade as constructed, one callback at a time, and time passes   *)
(* between callbacks in steps of the watchdog period.                      *)

\* self.command_timeout = 1.0 and create_timer(0.2, ...), in tenths of a second
command_timeout == 10
watchdog_period == 2

\* the commands target_velocity carries
TargetVelocities == {<<50000, 0>>, <<-500000, -900000>>}

\* time.time() - self.last_command_time taken from the start of the node
time_since_last_command_from_start == now

\* time.time() - self.last_command_time
time_since_last_command == now - last_command_time

\* ControlNode.__init__: the facade constructed, the clock read, rclpy.spin entered
ControlNodeInit ==
    /\ \E m \in MotorControl(PowerOn(TRUE)) :
        /\ is_idle = m.is_idle
        /\ cycle_count = m.cycle_count
        /\ has_mc = m.has_mc
        /\ hw = m.hw
        /\ link_up = m.link_up
        /\ incidents = m.incidents
        /\ in_flight = m.in_flight
        /\ polled_last = FALSE
        /\ recovery_failed = m.recovery_failed
        /\ trace = m.trace
        /\ call = Result("__init__", <<0, 0>>, m)
        /\ pre = Snapshot(PowerOn(TRUE))
        /\ pc = "returned"
    /\ app = "control_node"
    /\ lock = "free"
    /\ current_key = "None"
    /\ key_pressed = FALSE
    /\ running = FALSE
    /\ at = [t \in Tasks |-> IF t = "main" THEN "spin" ELSE "off"]
    /\ left = [t \in Tasks |-> 0]
    /\ exiting = FALSE
    /\ on_link = {}
    /\ now = 0
    /\ last_command_time = 0
    /\ signalled = FALSE
    /\ stop_calls = {}
    /\ current_linear = 0
    /\ current_angular = 0
    /\ NoPad

\* the clock advances while the executor waits for its next callback
TimePasses ==
    /\ ExecutorFree
    /\ pc = "ready"
    /\ now < MaxClock
    /\ now' = now + watchdog_period
    /\ UNCHANGED <<facadeVars, appVars, last_command_time, exitVars, loopVars, padVars, remoteVars>>

\* target_velocity_callback, lines 86-92: the timer reset, the command passed on
TargetVelocityCallback ==
    /\ ExecutorFree
    /\ pc = "ready"
    /\ cycle_count < MaxCommands
    /\ last_command_time' = now
    /\ \E msg \in TargetVelocities :
        \E m \in set_linear_angular_velocities(Enter, msg[1], msg[2]) :
            FacadeReturns("set_linear_angular_velocities", msg, m)
    /\ at' = [at EXCEPT !["target_velocity_callback"] = "left"]
    /\ UNCHANGED <<app, lock, current_key, key_pressed, running, left, exiting, on_link,
                   now, exitVars, loopVars, padVars, remoteVars>>

\* target_velocity_callback, lines 94-95: the wheel velocities read back
WheelFeedback ==
    /\ pc = "ready"
    /\ \/ /\ at["target_velocity_callback"] = "left"
          /\ \E m \in get_left_motor_velocity(Enter) :
                FacadeReturns("get_left_motor_velocity", <<0, 0>>, m)
          /\ at' = [at EXCEPT !["target_velocity_callback"] = "right"]
       \/ /\ at["target_velocity_callback"] = "right"
          /\ \E m \in get_right_motor_velocity(Enter) :
                FacadeReturns("get_right_motor_velocity", <<0, 0>>, m)
          /\ at' = [at EXCEPT !["target_velocity_callback"] = "publish"]
    /\ UNCHANGED <<app, lock, current_key, key_pressed, running, left, exiting, on_link,
                   driverVars>>

\* watchdog_callback, lines 72-78: the zero command once the timeout has
\* elapsed, nothing before
WatchdogCallback ==
    /\ ExecutorFree
    /\ pc = "ready"
    /\ cycle_count < MaxCommands
    /\ IF time_since_last_command > command_timeout
       THEN /\ \E m \in set_linear_angular_velocities(Enter, 0, 0) :
                FacadeReturns("set_linear_angular_velocities", <<0, 0>>, m)
            /\ at' = [at EXCEPT !["watchdog_callback"] = "publish"]
       ELSE /\ at' = [at EXCEPT !["watchdog_callback"] = "quiet"]
            /\ UNCHANGED facadeVars
    /\ UNCHANGED <<app, lock, current_key, key_pressed, running, left, exiting, on_link,
                   driverVars>>

\* publish_heartbeat, lines 64-68: no facade call
PublishHeartbeat ==
    /\ ExecutorFree
    /\ pc = "ready"
    /\ at' = [at EXCEPT !["publish_heartbeat"] = "publish"]
    /\ UNCHANGED <<facadeVars, app, lock, current_key, key_pressed, running, left,
                   exiting, on_link, driverVars>>

\* the callback publishes what it has to and returns to the executor
CallbackReturns ==
    /\ pc = "ready"
    /\ \E cb \in Callbacks :
        /\ at[cb] \in {"publish", "quiet"}
        /\ at' = [at EXCEPT ![cb] = "off"]
    /\ UNCHANGED <<facadeVars, app, lock, current_key, key_pressed, running, left,
                   exiting, on_link, driverVars>>

ControlNodeNext ==
    \/ TimePasses
    \/ TargetVelocityCallback
    \/ WheelFeedback
    \/ WatchdogCallback
    \/ PublishHeartbeat
    \/ CallbackReturns
    \/ NextTick
    \/ AxisFault
    \/ LinkLost
    \/ LinkRestored

ControlNodeSpec == ControlNodeInit /\ [][ControlNodeNext]_vars

----------------------------------------------------------------------------
(* The smoothing of backshot.py, backshot2.py and controller_control.py    *)
(* after the input is released: the target is (0.0, 0.0) and stays, and    *)
(* each tick multiplies the distance to it by 0.7.  Whatever the motion    *)
(* was, the smoothed command gets below 2^-1022, where the doubles are the *)
(* multiples of 2^-1074 and the arithmetic is integer arithmetic with one  *)
(* rounding, of the product by 0.3.                                        *)

\* x * SMOOTHING for x = k * 2^-1074, in the same units: the product with
\* the double nearest to 0.3, which is below 0.3, rounded to nearest (a
\* product halfway between two doubles in these units is therefore below
\* halfway, and goes down)
TimesSmoothing(k) ==
    IF k >= 0 THEN (3 * k + 4) \div 10 ELSE -((3 * (-k) + 4) \div 10)

\* current += (target - current) * SMOOTHING with target 0.0: the
\* difference and the sum are exact
SmoothToZero(k) == k + TimesSmoothing(0 - k)

\* the tick at which the smoothed command first is below 2^-1022, after a
\* motion that was linear or both linear and angular
SmoothingInit ==
    /\ QuietFacade
    /\ NoApplication
    /\ now = 0
    /\ last_command_time = 0
    /\ signalled = FALSE
    /\ stop_calls = {}
    /\ current_linear \in (-MaxSubnormal..MaxSubnormal) \ {0}
    /\ current_angular \in -MaxSubnormal..MaxSubnormal
    /\ NoPad

\* one round of the loop with no input: lines 129-133 of backshot.py; call
\* keeps the command passed to the facade (in units of 2^-1074) and whether
\* it is the (0.0, 0.0) that the facade answers with stop()
SmoothingTick ==
    /\ current_linear' = SmoothToZero(current_linear)
    /\ current_angular' = SmoothToZero(current_angular)
    /\ call' = [NoCall EXCEPT !.name = "set_linear_angular_velocities",
                              !.args = <<current_linear', current_angular'>>,
                              !.flag = (current_linear' = 0 /\ current_angular' = 0)]
    /\ UNCHANGED <<is_idle, cycle_count, has_mc, hw, link_up, incidents, in_flight,
                   polled_last, recovery_failed, pc, pre, trace>>
    /\ UNCHANGED <<appVars, nodeVars, exitVars, padVars, remoteVars>>

SmoothingNext == SmoothingTick

\* the loop runs on: time.sleep returns and the next round is made
SmoothingSpec == SmoothingInit /\ [][SmoothingNext]_vars /\ WF_vars(SmoothingNext)

----------------------------------------------------------------------------
(* backshot2.py: the controller thread samples the game controller under   *)
(* the lock and main reads the command and the analog values in two        *)
(* critical sections of its own.  A critical section is one step.  Analog  *)
(* values and intensities are in hundredths, targets in hundredths of a    *)
(* m/s or rad/s.                                                           *)

DEADZONE == 15
TRIGGER_DEADZONE == 5

Abs(x) == IF x < 0 THEN -x ELSE x

\* what the player does: the left stick pushed to the right, the R2 trigger
\* pulled half way, the X and the Options button held, in any combination
PadStates ==
    {[axes |-> <<x, 0, 0, 0, -100, r2>>, buttons |-> [b \in {0, 9} |-> b \in held]] :
        x \in {0, StickPush}, r2 \in {-100, 0}, held \in SUBSET {0, 9}}

\* _determine_command: the command and what input_active is afterwards
determine_command(c) ==
    IF c.buttons[9] THEN <<"q", c.input_active>>
    ELSE IF c.buttons[0] THEN <<"x", c.input_active>>
    ELSE IF c.r2_trigger > TRIGGER_DEADZONE THEN <<"w", TRUE>>
    ELSE IF c.l2_trigger > TRIGGER_DEADZONE THEN <<"s", TRUE>>
    ELSE IF Abs(c.right_stick_x) > DEADZONE \/ Abs(c.right_stick_y) > DEADZONE
        THEN <<IF Abs(c.right_stick_y) > Abs(c.right_stick_x)
               THEN (IF c.right_stick_y < -DEADZONE THEN "w" ELSE "s")
               ELSE (IF c.right_stick_x > DEADZONE THEN "d" ELSE "a"), TRUE>>
    ELSE IF Abs(c.left_stick_x) > DEADZONE \/ Abs(c.left_stick_y) > DEADZONE
        THEN <<IF Abs(c.left_stick_y) > Abs(c.left_stick_x)
               THEN (IF c.left_stick_y < -DEADZONE THEN "w" ELSE "s")
               ELSE (IF c.left_stick_x > DEADZONE THEN "d" ELSE "a"), TRUE>>
    ELSE <<"None", FALSE>>

\* main() past find_controller, the controller thread started
Backshot2Init ==
    /\ QuietFacade
    /\ app = "backshot2"
    /\ lock = "free"
    /\ current_key = "None"
    /\ key_pressed = FALSE
    /\ running = TRUE
    /\ at = [t \in Tasks |-> IF t = "main" THEN "loop"
                              ELSE IF t = "controller_thread" THEN "run" ELSE "off"]
    /\ left = [t \in Tasks |-> 0]
    /\ exiting = FALSE
    /\ on_link = {}
    /\ now = 0
    /\ last_command_time = 0
    /\ signalled = FALSE
    /\ stop_calls = {}
    /\ current_linear = 0
    /\ current_angular = 0
    /\ NoPad

\* the player moves a stick, pulls or releases a trigger, presses or
\* releases a button
PadChanges ==
    /\ at["main"] # "done"
    /\ pad' \in PadStates \ {pad}
    /\ UNCHANGED <<facadeVars, appVars, nodeVars, exitVars, loopVars, remoteVars, controller_input,
                   loop>>

\* controller_thread, lines 47-74: one round, the fields written and the
\* command determined under the lock
ControllerThread ==
    /\ at["controller_thread"] = "run"
    /\ running
    /\ lock = "free"
    /\ LET read == [controller_input EXCEPT
                        !.left_stick_x = pad.axes[1],
                        !.left_stick_y = pad.axes[2],
                        !.right_stick_x = pad.axes[3],
                        !.right_stick_y = pad.axes[4],
                        !.l2_trigger = (pad.axes[5] + 100) \div 2,
                        !.r2_trigger = (pad.axes[6] + 100) \div 2,
                        !.buttons = pad.buttons]
           determined == determine_command(read)
       IN  controller_input' = [read EXCEPT !.current_command = determined[1],
                                            !.input_active = determined[2]]
    /\ UNCHANGED <<facadeVars, appVars, nodeVars, exitVars, loopVars, remoteVars, pad, loop>>

\* controller_thread: "while self.running" ends
ControllerThreadExit ==
    /\ at["controller_thread"] = "run"
    /\ ~running
    /\ at' = [at EXCEPT !["controller_thread"] = "done"]
    /\ UNCHANGED <<facadeVars, app, lock, current_key, key_pressed, running, left,
                   exiting, on_link, driverVars>>

\* main, line 191: cmd = controller_input.get_current_command()
GetCurrentCommand ==
    /\ at["main"] = "loop"
    /\ lock = "free"
    /\ loop' = [loop EXCEPT !.cmd = IF controller_input.input_active
                                    THEN controller_input.current_command
                                    ELSE "None"]
    /\ at' = [at EXCEPT !["main"] = "analog"]
    /\ UNCHANGED <<facadeVars, app, lock, current_key, key_pressed, running, left,
                   exiting, on_link, nodeVars, exitVars, loopVars, remoteVars, pad, controller_input>>

\* main, line 192: analog_values = controller_input.get_analog_values()
GetAnalogValues ==
    /\ at["main"] = "analog"
    /\ lock = "free"
    /\ loop' = [loop EXCEPT !.analog_values = AnalogValues(controller_input)]
    /\ at' = [at EXCEPT !["main"] = "decide"]
    /\ UNCHANGED <<facadeVars, app, lock, current_key, key_pressed, running, left,
                   exiting, on_link, nodeVars, exitVars, loopVars, remoteVars, pad, controller_input>>

\* lines 196-260: the intensity of a movement command
Intensity(cmd, analog) ==
    IF cmd = "w" THEN
        IF analog.r2_trigger > 5 THEN analog.r2_trigger
        ELSE IF Abs(analog.right_stick_y) > 15 THEN Abs(analog.right_stick_y)
        ELSE IF Abs(analog.left_stick_y) > 15 THEN Abs(analog.left_stick_y)
        ELSE 100
    ELSE IF cmd = "s" THEN
        IF analog.l2_trigger > 5 THEN analog.l2_trigger
        ELSE IF Abs(analog.right_stick_y) > 15 THEN Abs(analog.right_stick_y)
        ELSE IF Abs(analog.left_stick_y) > 15 THEN Abs(analog.left_stick_y)
        ELSE 100
    ELSE IF cmd \in {"a", "d"} THEN
        IF Abs(analog.right_stick_x) > 15 THEN Abs(analog.right_stick_x)
        ELSE IF Abs(analog.left_stick_x) > 15 THEN Abs(analog.left_stick_x)
        ELSE 100
    ELSE 100

\* main, lines 194-288: the targets set from the command and the analog
\* values; the smoothed command follows them and is sent, and the loop goes
\* round.  On 'q' the loop is left for the finally clause, which stops the
\* controller thread and calls stop() on the facade.
MainRound ==
    /\ at["main"] = "decide"
    /\ LET cmd == loop.cmd
           intensity == Intensity(cmd, loop.analog_values)
           moving == loop.last_command \in {"w", "s", "a", "d"}
       IN  IF cmd = "q"
           THEN /\ at' = [at EXCEPT !["main"] = "done"]
                /\ running' = FALSE
                /\ stop_calls' = stop_calls \cup {"finally"}
                /\ UNCHANGED loop
           ELSE /\ at' = [at EXCEPT !["main"] = "loop"]
                /\ loop' =
                    IF cmd = "w"
                        THEN [loop EXCEPT !.intensity = intensity,
                                          !.target_linear = -4 * intensity,
                                          !.target_angular = 0, !.last_command = "w"]
                    ELSE IF cmd = "s"
                        THEN [loop EXCEPT !.intensity = intensity,
                                          !.target_linear = 4 * intensity,
                                          !.target_angular = 0, !.last_command = "s"]
                    ELSE IF cmd = "a"
                        THEN [loop EXCEPT !.intensity = intensity,
                                          !.target_linear = 0,
                                          !.target_angular = -8 * intensity,
                                          !.last_command = "a"]
                    ELSE IF cmd = "d"
                        THEN [loop EXCEPT !.intensity = intensity,
                                          !.target_linear = 0,
                                          !.target_angular = 8 * intensity,
                                          !.last_command = "d"]
                    ELSE IF cmd = "x"
                        THEN [loop EXCEPT !.intensity = intensity,
                                          !.target_linear = 0, !.target_angular = 0,
                                          !.last_command = "x"]
                    ELSE IF moving
                        THEN [loop EXCEPT !.target_linear = 0, !.target_angular = 0,
                                          !.last_command = "None"]
                    ELSE loop
                /\ UNCHANGED <<running, stop_calls>>
    /\ UNCHANGED <<facadeVars, app, lock, current_key, key_pressed, left, exiting,
                   on_link, nodeVars, signalled, loopVars, remoteVars, pad, controller_input>>

Backshot2Next ==
    \/ PadChanges
    \/ ControllerThread
    \/ ControllerThreadExit
    \/ GetCurrentCommand
    \/ GetAnalogValues
    \/ MainRound

Backshot2Spec == Backshot2Init /\ [][Backshot2Next]_vars

----------------------------------------------------------------------------
(* test_remote.py: the control loop of TestRemoteController, one round a   *)
(* step, with its joystick.  Times are in tenths of a second.              *)

\* self.watchdog_timeout = 1.0, connection_check_interval = 1.0,
\* self.control_loop_rate = 0.1, self.deadzone = 0.1 (in hundredths)
watchdog_timeout == 10
connection_check_interval == 10
control_loop_rate == 1
deadzone == 10

\* the joystick is plugged or unplugged, the stick pushed or let go, button
\* B pressed or released; pygame may or may not go on reporting the object
\* of an unplugged joystick as initialised
PlayerActs ==
    /\ device' \in [plugged : BOOLEAN, stick : {0, StickPush}, button_b : BOOLEAN]
    /\ device' # device
    /\ \/ UNCHANGED remote
       \/ /\ remote.joystick = "init"
          /\ ~device'.plugged
          /\ remote' = [remote EXCEPT !.joystick = "quit"]
    /\ UNCHANGED <<facadeVars, appVars, nodeVars, exitVars, loopVars, padVars>>

\* check_joystick_connection, lines 45-65
check_joystick_connection(r) ==
    IF r.joystick # "init"
    THEN IF device.plugged
         THEN [r EXCEPT !.joystick = "init", !.connection_active = TRUE,
                        !.time_since_activity = 0]
         ELSE [r EXCEPT !.connection_active = FALSE]
    ELSE r

\* watchdog_check, lines 140-148
watchdog_check(r) ==
    ~(r.time_since_activity > watchdog_timeout /\ r.connection_active)

\* apply_deadzone of the absolute value
apply_deadzone(value) == IF value < deadzone THEN 0 ELSE value

\* process_joystick_input, lines 76-138: nothing without a joystick; the
\* removal event of an unplugged one drops it; button B is the emergency
\* stop; input beyond the deadzone refreshes last_activity_time
process_joystick_input(r) ==
    IF r.joystick # "init" THEN [r EXCEPT !.step = "no joystick"]
    ELSE IF ~device.plugged
        THEN [r EXCEPT !.joystick = "None", !.connection_active = FALSE,
                       !.step = "removed"]
    ELSE IF device.button_b
        THEN [r EXCEPT !.emergency_stop_active = TRUE, !.step = "processed"]
    ELSE IF apply_deadzone(device.stick) > 0
        THEN [r EXCEPT !.time_since_activity = 0, !.step = "processed"]
    ELSE [r EXCEPT !.step = "processed"]

\* time.sleep(self.control_loop_rate)
Sleep(r) ==
    LET later(t, limit) == IF t > limit THEN t ELSE t + control_loop_rate
    IN  [r EXCEPT !.time_since_activity = later(@, watchdog_timeout),
                  !.since_connection_check = later(@, connection_check_interval)]

TestRemoteInit ==
    /\ QuietFacade
    /\ NoApplication
    /\ now = 0
    /\ last_command_time = 0
    /\ signalled = FALSE
    /\ stop_calls = {}
    /\ current_linear = 0
    /\ current_angular = 0
    /\ NoPad

\* control_loop, lines 165-188: one round
ControlLoopRound ==
    /\ LET checked == IF remote.since_connection_check > connection_check_interval
                      THEN [check_joystick_connection(remote)
                                EXCEPT !.since_connection_check = 0]
                      ELSE remote
       IN  remote' = Sleep(IF checked.emergency_stop_active
                               THEN [checked EXCEPT !.step = "emergency stop"]
                           ELSE IF ~watchdog_check(checked)
                               THEN [checked EXCEPT !.step = "watchdog stop"]
                           ELSE process_joystick_input(checked))
    /\ UNCHANGED <<facadeVars, appVars, nodeVars, exitVars, loopVars, padVars, device>>

TestRemoteNext ==
    \/ PlayerActs
    \/ ControlLoopRound

\* the loop runs on: every sleep returns
TestRemoteSpec ==
    TestRemoteInit /\ [][TestRemoteNext]_vars /\ WF_vars(ControlLoopRound)

----------------------------------------------------------------------------
(* The unit conversions and the wheel kinematics on their own: each action *)
(* applies the code's arithmetic to inputs drawn from a grid and keeps the *)
(* result in call.                                                         *)

\* yaw rates on a grid of YawStep thousandths of a rad/s, linear velocities on
\* a grid of Overdrive, both up to Overdrive beyond the maxima
LinearInputs ==
    {l \in -(MOTOR_CONTROL_MAX_SPEED_LINEAR_MPS + Overdrive)
            ..(MOTOR_CONTROL_MAX_SPEED_LINEAR_MPS + Overdrive) : l % Overdrive = 0}
AngularInputs ==
    {a \in -(MOTOR_CONTROL_MAX_SPEED_ANGULAR_RADPS + Overdrive)
            ..(MOTOR_CONTROL_MAX_SPEED_ANGULAR_RADPS + Overdrive) : a % YawStep = 0}

\* wheel velocities throughout [-4.0, 4.0] m/s
WheelSpeeds ==
    {x \in -MOTOR_CONTROL_MAX_SPEED_LINEAR_MPS..MOTOR_CONTROL_MAX_SPEED_LINEAR_MPS :
        x % SpeedStep = 0}

\* lines 203-213 applied to a command and to the same command turning the
\* other way; trace keeps the wheel velocities computed, left and right of
\* the one, then left and right of the other
WheelVelocities ==
    /\ pc = "ready"
    /\ \E l \in LinearInputs : \E a \in AngularInputs :
        LET computed(axis, velocity) ==
                [c |-> "wheel", a |-> axis, r |-> "", v |-> velocity, ok |-> TRUE,
                 reply |-> <<>>]
            wheels(yaw_rate_target) ==
                LET velocity == Clip(l, MOTOR_CONTROL_MAX_SPEED_LINEAR_MPS)
                    yaw_rate == Clip(yaw_rate_target,
                                     MOTOR_CONTROL_MAX_SPEED_ANGULAR_RADPS)
                IN  <<computed(MOTOR_CONTROL_LEFT_MOTOR_AXIS,
                               left_wheel_velocity(velocity, yaw_rate)),
                      computed(MOTOR_CONTROL_RIGHT_MOTOR_AXIS,
                               right_wheel_velocity(velocity, yaw_rate))>>
        IN  /\ call' = [NoCall EXCEPT !.name = "wheel_velocities", !.args = <<l, a>>]
            /\ trace' = wheels(a) \o wheels(-a)
    /\ pc' = "returned"
    /\ pre' = Snapshot(Enter)
    /\ UNCHANGED <<is_idle, cycle_count, has_mc, hw, link_up, incidents, in_flight,
                   polled_last, recovery_failed>>
    /\ UNCHANGED <<appVars, driverVars>>

\* a wheel velocity x sent to an axis as lines 216-223 send it, and the
\* velocity accessor of that axis called on a controller that reports the
\* setpoint as its velocity
RoundTrip ==
    /\ pc = "ready"
    /\ \E x \in WheelSpeeds :
        \/ \E w \in set_speed_rpm_left(Enter, MpsToRpm(x)) :
            \E m \in get_left_motor_velocity(w) :
                /\ call' = Result("round_trip", <<x, MOTOR_CONTROL_LEFT_MOTOR_DIR>>, m)
                /\ trace' = m.trace
        \/ \E w \in set_speed_rpm_right(Enter, MpsToRpm(x)) :
            \E m \in get_right_motor_velocity(w) :
                /\ call' = Result("round_trip", <<x, MOTOR_CONTROL_RIGHT_MOTOR_DIR>>, m)
                /\ trace' = m.trace
    /\ pc' = "returned"
    /\ pre' = Snapshot(Enter)
    /\ UNCHANGED <<is_idle, cycle_count, has_mc, hw, link_up, incidents, in_flight,
                   polled_last, recovery_failed>>
    /\ UNCHANGED <<appVars, driverVars>>

\* has_errors on a controller whose axis `axis` holds error register e and
\* prints it in one of the formats, the other axis holding 0: the two
\* queries of lines 87-88 with their replies, and the verdict of lines 89-97
\* in call.flag
HasErrorsFormatted ==
    /\ pc = "ready"
    /\ \E axis \in Axes : \E e \in 0..MaxErrorRegister : \E format \in Formats :
        LET register(a) == IF a = axis THEN e ELSE 0
            query(a) == Attempt(R(a, "error"), TRUE, FormatText(register(a), format))
            first == ErrorReplyIsFault(query(0).reply)
        IN  /\ call' = [NoCall EXCEPT !.name = "has_errors",
                                      !.args = <<axis, e>>,
                                      !.flag = first \/ ErrorReplyIsFault(query(1).reply)]
            /\ trace' = IF first THEN <<query(0)>> ELSE <<query(0), query(1)>>
    /\ pc' = "returned"
    /\ pre' = Snapshot(Enter)
    /\ UNCHANGED <<is_idle, cycle_count, has_mc, hw, link_up, incidents, in_flight,
                   polled_last, recovery_failed>>
    /\ UNCHANGED <<appVars, driverVars>>

ConversionInit == QuietFacade /\ NoApplication /\ NoDriver

ConversionNext ==
    \/ WheelVelocities
    \/ RoundTrip
    \/ HasErrorsFormatted
    \/ NextTick

ConversionSpec == ConversionInit /\ [][ConversionNext]_vars

----------------------------------------------------------------------------
(* Vocabulary of the properties *)

Left == MOTOR_CONTROL_LEFT_MOTOR_AXIS
Right == MOTOR_CONTROL_RIGHT_MOTOR_AXIS

\* the facade method name has just returned (or raised) to its caller
Returned(name) == pc = "returned" /\ call.name = name

\* no serial operation of the call failed and no reply was lost
CleanCall == pre.link_up /\ link_up /\ incidents = pre.incidents

\* trace entry e is a write (delivered or not) of register reg of axis
IsWrite(e, axis, reg) == e.c = "w" /\ e.a = axis /\ e.r = reg

\* trace entry e is the log message
IsLog(e, message) == e.c = "log" /\ e.r = message

\* some serial operation of the call failed
SomeOperationFailed == \E i \in 1..Len(trace) : ~trace[i].ok

RECURSIVE IdleRespected(_, _)
\* walking the delivered writes of tr, with req[axis] the requested_state
\* last written to each axis: no non-zero setpoint reaches an idle axis
IdleRespected(tr, req) ==
    IF tr = <<>> THEN TRUE
    ELSE LET e == Head(tr)
         IN  IF ~e.ok \/ e.c # "w" THEN IdleRespected(Tail(tr), req)
             ELSE IF e.r = "requested_state"
                 THEN IdleRespected(Tail(tr), [req EXCEPT ![e.a] = e.v])
             ELSE IF e.r = "input_vel" /\ e.v # 0 /\ req[e.a] = AXIS_STATE_IDLE
                 THEN FALSE
             ELSE IdleRespected(Tail(tr), req)

----------------------------------------------------------------------------
(* Properties *)

\* C1: when set_linear_angular_velocities(0.0, 0.0) returns from a call with
\* no serial failure and no axis fault (on a facade whose motor_controller
\* exists), both axes are idle: requested_state 1
\* was the last one written, the setpoint is zero, is_idle is true, and no
\* requested_state 8 follows the idle writes of the call.
C1_ZeroCommandLeavesAxesIdle ==
    (/\ Returned("set_linear_angular_velocities")
     /\ call.args = <<0, 0>>
     /\ pre.has_mc
     /\ CleanCall
     /\ \A a \in Axes : pre.hw[a]["error"] = 0)
    => /\ is_idle
       /\ \A a \in Axes : /\ hw[a]["requested_state"] = AXIS_STATE_IDLE
                          /\ hw[a]["input_vel"] = 0
       /\ \A i, j \in 1..Len(trace) :
            (/\ i < j
             /\ trace[i].r = "requested_state" /\ trace[i].v = AXIS_STATE_IDLE)
            => ~(/\ trace[j].r = "requested_state"
                 /\ trace[j].v = AXIS_STATE_CLOSED_LOOP_CONTROL)

\* C2: set_linear_angular_velocities never lets an exception reach its
\* caller, whatever serial operations fail and also when the
\* motor_controller attribute was never bound.
C2_SetVelocitiesNeverRaises ==
    Returned("set_linear_angular_velocities") => ~call.raised

\* a command given while idle whose first re-arm write fails, absorbed
C2_Witness ==
    /\ Returned("set_linear_angular_velocities")
    /\ pre.is_idle
    /\ call.args = <<50000, 0>>
    /\ Len(trace) > 0
    /\ ~trace[1].ok
    /\ ~call.raised

\* C3: a call at a health-check boundary that finds an axis error register
\* non-zero runs Recovery exactly once and returns with the facade active
\* (is_idle false), both axes requested into closed-loop control and both
\* error registers zero.
C3_FaultAtBoundaryRecoversToActive ==
    (/\ Returned("set_linear_angular_velocities")
     /\ pre.cycle_count % HEALTH_CHECK_PERIOD = 0
     /\ \E a \in Axes : pre.hw[a]["error"] # 0
     /\ pre.has_mc
     /\ CleanCall)
    => /\ call.recoveries = 1
       /\ ~is_idle
       /\ \A a \in Axes : /\ hw[a]["requested_state"] = AXIS_STATE_CLOSED_LOOP_CONTROL
                          /\ hw[a]["error"] = 0

\* C4: between facade calls is_idle is true exactly when idle is the
\* requested_state last written to both axes.
C4_IsIdleMatchesAxes ==
    is_idle <=> (\A a \in Axes : hw[a]["requested_state"] = AXIS_STATE_IDLE)

\* C5: once requested_state 1 has been written to an axis, no velocity
\* setpoint is written to it before requested_state 8 has been written to it
\* again (stated for non-zero setpoints: stop() rewrites the zero setpoint
\* on every call).
C5_NoSetpointWhileIdle ==
    pc = "returned"
    => IdleRespected(trace, [a \in Axes |-> pre.hw[a]["requested_state"]])

\* C6: when stop() returns is_idle is true, also when one of its four
\* writes failed (stated for a facade whose motor_controller exists).
C6_StopAlwaysRecordsIdle ==
    (Returned("stop") /\ pre.has_mc) => is_idle

\* C7: when a write inside stop() fails, emergency_stop goes on to attempt
\* the zero-velocity writes on both axes, and when one of those fails, the
\* idle writes on both axes.
C7_EmergencyStopAttemptsEveryStage ==
    Returned("emergency_stop")
    => \A k \in 1..Len(trace) :
        (~trace[k].ok /\ \A h \in 1..(k - 1) : trace[h].ok)
        => /\ \A a \in Axes : \E i \in (k + 1)..Len(trace) :
                IsWrite(trace[i], a, "input_vel") /\ trace[i].v = 0
           /\ (\E i \in (k + 1)..Len(trace) :
                    trace[i].r = "input_vel" /\ ~trace[i].ok)
              => \A a \in Axes : \E i \in (k + 1)..Len(trace) :
                    /\ IsWrite(trace[i], a, "requested_state")
                    /\ trace[i].v = AXIS_STATE_IDLE

\* C8: emergency_stop never lets an exception reach its caller, whatever
\* serial operations fail and also without a motor_controller.
C8_EmergencyStopNeverRaises ==
    Returned("emergency_stop") => ~call.raised

\* an emergency stop during which a serial write failed
C8_Witness ==
    /\ Returned("emergency_stop")
    /\ SomeOperationFailed
    /\ ~call.raised

\* C9: every Recovery, whatever triggered it, is preceded in the same call
\* by attempted zero-velocity writes to both axes, before the link is
\* re-opened (stated for a facade whose motor_controller exists).
C9_RecoveryBeginsWithEmergencyStop ==
    (pc = "returned" /\ call.name # "__init__" /\ pre.has_mc)
    => \A i \in 1..Len(trace) :
        trace[i].c = "open"
        => \A a \in Axes : \E j \in 1..(i - 1) :
                IsWrite(trace[j], a, "input_vel") /\ trace[j].v = 0

\* C10: during every Recovery after construction the reboot command sr is
\* sent before the link is re-opened.
C10_RecoveryRebootsController ==
    (pc = "returned" /\ call.name # "__init__" /\ pre.has_mc)
    => \A i \in 1..Len(trace) :
        trace[i].c = "open" => \E j \in 1..(i - 1) : trace[j].c = "sr"

\* C11: the set_linear_angular_velocities call that follows a failed Recovery
\* (reset_and_initialize_motors swallowed an exception) runs Recovery again,
\* and writes no setpoint of its command before that (stated for a command
\* that moves the robot).
C11_FailedRecoveryIsRetried ==
    (/\ Returned("set_linear_angular_velocities")
     /\ pre.recovery_failed
     /\ call.args # <<0, 0>>)
    => \E i \in 1..Len(trace) :
        /\ trace[i].c = "open"
        /\ \A j \in 1..(i - 1) : ~(trace[j].r = "input_vel" /\ trace[j].v # 0)

\* C12: a set_linear_angular_velocities call in which a serial operation
\* raised (in the re-arm from idle, the health check or the setpoint writes)
\* runs Recovery before it returns (stated for a command that moves the
\* robot: a zero command first runs stop(), which absorbs its own failures).
C12_LinkFailureLeadsToRecovery ==
    (/\ Returned("set_linear_angular_velocities")
     /\ pre.has_mc
     /\ call.args # <<0, 0>>
     /\ SomeOperationFailed)
    => \E i \in 1..Len(trace) :
        /\ trace[i].c = "open"
        /\ \E j \in 1..(i - 1) : ~trace[j].ok

\* the call reached its setpoint writes and the left one (k = s + 1) or the
\* right one (k = s + 2) raised
SetpointWriteFailed(s, k) ==
    /\ s \in 1..Len(trace) /\ k \in 1..Len(trace)
    /\ IsLog(trace[s], "Sending commands to motors")
    /\ k \in {s + 1, s + 2}
    /\ \A h \in (s + 1)..(k - 1) : trace[h].ok
    /\ trace[k].r = "input_vel" /\ ~trace[k].ok

\* C13: when a setpoint write of set_linear_angular_velocities raises, the
\* call runs emergency_stop (which attempts a zero setpoint), then Recovery,
\* returns without raising and leaves cycle_count as it was.
C13_FailedSetpointStopsRecoversKeepsCount ==
    Returned("set_linear_angular_velocities")
    => \A s, k \in 1..Len(trace) :
        SetpointWriteFailed(s, k)
        => /\ \E i, z, j \in (k + 1)..Len(trace) :
                /\ i < z /\ z < j
                /\ IsLog(trace[i], "EMERGENCY STOP")
                /\ trace[z].r = "input_vel" /\ trace[z].v = 0
                /\ trace[j].c = "open"
           /\ ~call.raised
           /\ cycle_count = pre.cycle_count

\* the right setpoint write of a forward command failed after the left one
\* was delivered, and the call recovered
C13_Witness ==
    /\ Returned("set_linear_angular_velocities")
    /\ call.args = <<50000, 0>>
    /\ \E s \in 1..Len(trace) : SetpointWriteFailed(s, s + 2)
    /\ call.recoveries = 1
    /\ cycle_count = pre.cycle_count

\* a reply line to 'f N' that parses: two numbers separated by one space
FeedbackParses(reply) ==
    LET parts == SplitSpace(reply, <<>>, <<>>)
    IN  Len(parts) = 2 /\ FloatOk(parts[1]) /\ FloatOk(parts[2])

\* the velocity (rps in 1/10000) a parsable reply line reports
ReportedVelocity(reply) == FloatValue(SplitSpace(reply, <<>>, <<>>)[2])

\* what a velocity accessor owes its caller for one axis
AccessorContract(name, axis, direction) ==
    Returned(name)
    => /\ ~call.raised
       /\ IF /\ Len(trace) > 0
             /\ trace[1].c = "f" /\ trace[1].a = axis
             /\ trace[1].ok /\ FeedbackParses(trace[1].reply)
            THEN LET mps == RoundDiv(ReportedVelocity(trace[1].reply) * direction
                                      * WHEEL_CIRCUMFERENCE, 100)
                 IN  /\ call.recoveries = 0
                     /\ call.ret - mps \in -1..1
          ELSE call.recoveries = 1 /\ call.ret = 0

\* C14: get_left_motor_velocity and get_right_motor_velocity never raise; when
\* the 'f N' exchange fails or its reply does not parse (the empty reply of a
\* timeout included) they run Recovery exactly once and return 0.0, and
\* otherwise they return the reported velocity in m/s with the axis
\* direction applied.
C14_AccessorsRecoverOrReport ==
    /\ AccessorContract("get_left_motor_velocity", MOTOR_CONTROL_LEFT_MOTOR_AXIS,
                        MOTOR_CONTROL_LEFT_MOTOR_DIR)
    /\ AccessorContract("get_right_motor_velocity", MOTOR_CONTROL_RIGHT_MOTOR_AXIS,
                        MOTOR_CONTROL_RIGHT_MOTOR_DIR)

\* the reply to 'f 1' was lost; the right accessor recovered and answered 0.0
C14_Witness ==
    /\ Returned("get_right_motor_velocity")
    /\ trace[1].c = "f" /\ trace[1].ok /\ trace[1].reply = <<>>
    /\ call.recoveries = 1
    /\ call.ret = 0
    /\ ~call.raised

RECURSIVE RepliesGenuine(_, _)
\* walking the operations of tr from registers h: every reply line a query
\* returned, other than the empty line of a timeout and a line of noise, is
\* the controller's answer to that query
RepliesGenuine(tr, h) ==
    IF tr = <<>> THEN TRUE
    ELSE LET e == Head(tr)
         IN  IF ~e.ok \/ e.c \notin {"w", "r", "f"} THEN RepliesGenuine(Tail(tr), h)
             ELSE IF e.c = "w" THEN RepliesGenuine(Tail(tr), Deliver(h, e))
             ELSE /\ e.reply \in {<<>>, HardwareReply(h, e)} \cup GarbledReplies
                  /\ RepliesGenuine(Tail(tr), h)

\* C15: the reply line a query returns is the controller's answer to that
\* same query; the late reply to an earlier, timed-out query is never
\* returned for a later one, whenever it arrives (stated for the calls made
\* after construction).
C15_NoStaleReply ==
    (pc = "returned" /\ call.name # "__init__") => RepliesGenuine(trace, pre.hw)

\* C16: a query whose reply line does not arrive before the timeout ends in
\* an error and hands no value to its caller: no 'r' or 'f' command
\* completes normally with the empty line read at the timeout (stated for
\* the calls made after construction).
C16_TimeoutIsAnError ==
    (pc = "returned" /\ call.name # "__init__")
    => \A i \in 1..Len(trace) :
        (trace[i].c \in {"r", "f"} /\ trace[i].reply = <<>>) => ~trace[i].ok

\* an error-register reply with no digit in it: int() of it raises
Unreadable(reply) == ~IntOk(cleaned_response(reply))

\* C17: an error-register reply that does not parse as an integer (the empty
\* line of a timeout, a line with no digit) counts as a fault: get_errors
\* returns code -1, check_errors returns True and has_errors returns True.
C17_UnreadableErrorIsFault ==
    (/\ pc = "returned"
     /\ ~call.raised
     /\ \E i \in 1..Len(trace) :
            trace[i].c = "r" /\ trace[i].ok /\ Unreadable(trace[i].reply))
    => /\ call.name \in {"get_errors_left", "get_errors_right"} => call.ret = -1
       /\ call.name \in {"check_errors_left", "check_errors_right"} => call.flag
       /\ call.name = "has_errors" => call.flag

\* has_errors was answered by axis 0 with zero and by axis 1 with noise, and
\* returned True
C17_Witness ==
    /\ Returned("has_errors")
    /\ Len(trace) = 2
    /\ trace[1].reply = <<"0">>
    /\ trace[2].ok /\ trace[2].reply \in GarbledReplies
    /\ call.flag

\* C18: two polls of the error registers are 20 set_linear_angular_velocities
\* calls apart: a call that polls does not follow immediately on a call that
\* polled.
C18_PollEveryTwentiethCall ==
    (Returned("set_linear_angular_velocities") /\ PolledIn(trace))
    => ~pre.polled_last

\* trace entry e says that the health check is about to stop and recover
HealthCheckTriggers(e) ==
    IsLog(e, "ERRORS DETECTED") \/ IsLog(e, "ERROR checking motor errors")

\* C19: when the health check of a set_linear_angular_velocities call
\* triggers Recovery, the command of that call is dropped: from then on the
\* only setpoints written are the zeros of the emergency stop, Recovery runs
\* once, and nothing is sent after it.
C19_HealthCheckRecoveryDropsCommand ==
    Returned("set_linear_angular_velocities")
    => \A c \in 1..Len(trace) :
        HealthCheckTriggers(trace[c])
        => /\ call.recoveries = 1
           /\ \A j \in (c + 1)..Len(trace) :
                /\ trace[j].r = "input_vel" => trace[j].v = 0
                /\ ~IsLog(trace[j], "Sending commands to motors")
           /\ \E i \in (c + 1)..Len(trace) :
                /\ IsLog(trace[i], "Starting motor reset")
                /\ \A j \in (i + 1)..Len(trace) : trace[j].r # "input_vel"

\* a forward command met a faulted axis at the health check: Recovery ran to
\* its end and the forward setpoint was never written
C19_Witness ==
    /\ Returned("set_linear_angular_velocities")
    /\ call.args = <<50000, 0>>
    /\ \E a \in Axes : pre.hw[a]["error"] # 0
    /\ \E c \in 1..Len(trace) : IsLog(trace[c], "ERRORS DETECTED")
    /\ call.recoveries = 1
    /\ ~recovery_failed
    /\ \A a \in Axes : hw[a]["input_vel"] = 0

\* x brought into [-limit, limit]
Clipped(x, limit) == IF x > limit THEN limit ELSE IF x < -limit THEN -limit ELSE x

\* the setpoint on the wire (rps in 1/10000) of a wheel velocity
WheelSetpoint(mps) == RoundDiv(mps * 100, WHEEL_CIRCUMFERENCE)

\* entry e writes to axis the setpoint of wheel velocity mps with the axis
\* direction applied, up to the rounding of the two unit conversions, and
\* within the magnitude of the clipped maxima
SendsWheelVelocity(e, axis, mps, direction) ==
    LET most == WheelSetpoint(MOTOR_CONTROL_MAX_SPEED_LINEAR_MPS
                    + (ROBOT_WHEEL_DIST_M * MOTOR_CONTROL_MAX_SPEED_ANGULAR_RADPS) \div 2000)
    IN  /\ IsWrite(e, axis, "input_vel")
        /\ e.v - WheelSetpoint(mps) * direction \in -2..2
        /\ e.v \in (-most - 2)..(most + 2)

\* C20: for every command, those beyond the maxima at either extreme
\* included, the wheel velocities sent are those of the command clipped to
\* [-MAX_LINEAR, MAX_LINEAR] and [-MAX_ANGULAR, MAX_ANGULAR], so none exceeds
\* MAX_LINEAR + trackWidth * MAX_ANGULAR / 2 in magnitude.
C20_WheelVelocitiesOfClippedCommand ==
    Returned("set_linear_angular_velocities")
    => \A s \in 1..Len(trace) :
        IsLog(trace[s], "Sending commands to motors")
        => LET linear == Clipped(call.args[1], MOTOR_CONTROL_MAX_SPEED_LINEAR_MPS)
               angular == Clipped(call.args[2], MOTOR_CONTROL_MAX_SPEED_ANGULAR_RADPS)
               component == (ROBOT_WHEEL_DIST_M * angular) \div 2000
           IN  /\ s + 1 <= Len(trace)
                    => SendsWheelVelocity(trace[s + 1], Left, linear - component,
                                          MOTOR_CONTROL_LEFT_MOTOR_DIR)
               /\ (s + 2 <= Len(trace) /\ trace[s + 1].ok)
                    => SendsWheelVelocity(trace[s + 2], Right, linear + component,
                                          MOTOR_CONTROL_RIGHT_MOTOR_DIR)

\* the command beyond both maxima on the negative side was carried out: the
\* right wheel, the faster one, was sent the setpoint of -6.0 m/s reversed
C20_Witness ==
    /\ Returned("set_linear_angular_velocities")
    /\ call.args = <<-500000, -900000>>
    /\ cycle_count = pre.cycle_count + 1
    /\ hw[Right]["input_vel"] - WheelSetpoint(600000) \in -2..2
    /\ hw[Left]["input_vel"] - WheelSetpoint(-200000) \in -2..2

----------------------------------------------------------------------------
\* C21: at most one request/response exchange is in flight on the link at any
\* time, and only bodies running on the main thread ever have one: the input
\* thread holds nothing but the lock, under which alone it stores its slots,
\* and the callbacks of control_node never have exchanges in flight together.
C21_OneExchangeOneThread ==
    /\ Cardinality(on_link) <= 1
    /\ \A t \in on_link : ThreadOf(t) = "main"
    /\ at["keyboard_thread"] = "locked" <=> lock = "keyboard_thread"
    /\ ~(at["target_velocity_callback"] # "off" /\ at["watchdog_callback"] # "off")

\* the main thread awaits a reply while the input thread stores a key
C21_Witness ==
    /\ on_link = {"main"}
    /\ at["keyboard_thread"] = "locked"
    /\ ~exiting

\* C22: at every moment at most one link instance is open on the serial
\* port: whenever a port is opened, in the constructor or in a recovery, no
\* earlier instance is open alongside it.
C22_OneOpenLink ==
    \A i \in 1..Len(trace) :
        trace[i].c = "open" /\ trace[i].ok => trace[i].v <= 1

\* C23: the value written to an axis's input_vel is the wheel target in
\* rotations per second times the axis's direction sign (up to the rounding of
\* the unit conversions); for a command with angular = 0 both wheel targets
\* are the linear speed, and with directions 1 and -1 the value written to the
\* right axis is exactly the negation of the value written to the left axis.
C23_SetpointIsTargetTimesDirection ==
    Returned("set_linear_angular_velocities")
    => \A s \in 1..Len(trace) :
        (/\ IsLog(trace[s], "Sending commands to motors")
         /\ s + 2 <= Len(trace)
         /\ trace[s + 1].ok)
        => LET linear == Clipped(call.args[1], MOTOR_CONTROL_MAX_SPEED_LINEAR_MPS)
               angular == Clipped(call.args[2], MOTOR_CONTROL_MAX_SPEED_ANGULAR_RADPS)
               component == (ROBOT_WHEEL_DIST_M * angular) \div 2000
               toLeft == trace[s + 1]
               toRight == trace[s + 2]
           IN  /\ IsWrite(toLeft, Left, "input_vel")
               /\ IsWrite(toRight, Right, "input_vel")
               /\ toLeft.v - WheelSetpoint(linear - component)
                            * MOTOR_CONTROL_LEFT_MOTOR_DIR \in -2..2
               /\ toRight.v - WheelSetpoint(linear + component)
                            * MOTOR_CONTROL_RIGHT_MOTOR_DIR \in -2..2
               /\ call.args[2] = 0
                    => /\ toRight.v = -toLeft.v
                       /\ toLeft.v - WheelSetpoint(call.args[1]) \in -2..2

\* the command (0.5, 0.0) was carried out: the left axis was sent the
\* setpoint of 0.5 m/s and the right axis its negation
C23_Witness ==
    /\ Returned("set_linear_angular_velocities")
    /\ call.args = <<50000, 0>>
    /\ cycle_count = pre.cycle_count + 1
    /\ hw[Left]["input_vel"] > 0
    /\ hw[Left]["input_vel"] - WheelSetpoint(50000) \in -2..2
    /\ hw[Right]["input_vel"] = -hw[Left]["input_vel"]

\* C24: the body-to-wheel decomposition is left = linear - trackWidth *
\* angular / 2, right = linear + trackWidth * angular / 2 (of the clipped
\* command); it is antisymmetric in angular: the command (l, -a) yields the
\* wheel velocities of (l, a) exchanged, for l = 0 as for any l; and for a
\* positive angular rate the left wheel is the slower one.
C24_DecompositionAntisymmetric ==
    Returned("wheel_velocities")
    => LET linear == Clipped(call.args[1], MOTOR_CONTROL_MAX_SPEED_LINEAR_MPS)
           angular == Clipped(call.args[2], MOTOR_CONTROL_MAX_SPEED_ANGULAR_RADPS)
           slow == trace[1].v
           fast == trace[2].v
       IN  /\ 2000 * (linear - slow) - ROBOT_WHEEL_DIST_M * angular \in -1000..1000
           /\ 2000 * (fast - linear) - ROBOT_WHEEL_DIST_M * angular \in -1000..1000
           /\ trace[3].v = fast /\ trace[4].v = slow
           /\ call.args[2] > 0 => slow < fast

\* the spec's case: no linear velocity, a turn at 1.0 rad/s; the wheels run
\* at -0.25 and 0.25 m/s, and the other way round for -1.0 rad/s
C24_Witness ==
    /\ Returned("wheel_velocities")
    /\ call.args = <<0, 100000>>
    /\ <<trace[1].v, trace[2].v>> = <<-25000, 25000>>
    /\ <<trace[3].v, trace[4].v>> = <<25000, -25000>>

\* the round trip the state holds the result of: x sent, the setpoint written
\* for it reported back as the velocity, the accessor's reply parsed
RoundTripMade ==
    /\ Returned("round_trip")
    /\ Len(trace) = 2
    /\ trace[1].c = "w" /\ trace[1].r = "input_vel"
    /\ trace[2].c = "f" /\ trace[2].a = trace[1].a
    /\ FeedbackParses(trace[2].reply)
    /\ ReportedVelocity(trace[2].reply) = trace[1].v

\* C25: the command and feedback conversions are inverse to each other: for
\* every wheel velocity x in [-4.0, 4.0] m/s and both direction signs, when
\* the controller reports as its velocity exactly the input_vel written for
\* x, the velocity accessor returns x.
C25_RoundTrip ==
    RoundTripMade
    => /\ ~call.raised
       /\ call.recoveries = 0
       /\ call.ret = call.args[1]

\* C25 as the code has it: the accessor returns x to within what the four
\* decimals of the setpoint leave of it, 0.00003 m/s (half of 0.0001
\* rotations per second of a wheel of that circumference), with the sign
\* of x whatever the direction of the axis.
C25_RoundTripWithinWireResolution ==
    RoundTripMade
    => /\ ~call.raised
       /\ call.recoveries = 0
       /\ call.ret - call.args[1] \in -3..3

\* 1.0 m/s on the reversed axis: -1.8727 written for 1.8726..., reported
\* back, and the accessor answered 1.00002 m/s
C25_Witness ==
    /\ RoundTripMade
    /\ call.args = <<100000, -1>>
    /\ trace[1].v = -18727
    /\ call.ret = 100002

\* the call that has just returned ran a Recovery, and its last one met no
\* failure of the link
RecoveredCleanly ==
    /\ pc = "returned"
    /\ call.recoveries >= 1
    /\ ~recovery_failed

\* C26: after construction and after every Recovery that completes without a
\* failure of the link, on both axes the last control_mode written is 2
\* (velocity), the last input_mode written is 2 (passthrough), the last
\* requested_state written is 8 (closed-loop control) and the current limit
\* written is 40 A.
C26_RecoveryConfiguresBothAxes ==
    RecoveredCleanly
    => \A a \in Axes :
        /\ hw[a]["control_mode"] = CONTROL_MODE_VELOCITY
        /\ hw[a]["input_mode"] = INPUT_MODE_PASSTHROUGH
        /\ hw[a]["requested_state"] = AXIS_STATE_CLOSED_LOOP_CONTROL
        /\ hw[a]["current_lim"] = CURRENT_LIMIT

\* a Recovery after construction, entered with both axes idle, that
\* completed and left them in closed-loop control
C26_Witness ==
    /\ RecoveredCleanly
    /\ call.name # "__init__"
    /\ \A a \in Axes : pre.hw[a]["requested_state"] = AXIS_STATE_IDLE
    /\ \A a \in Axes : hw[a]["requested_state"] = AXIS_STATE_CLOSED_LOOP_CONTROL

\* the machine a further call starts on when nothing fails from here on
EnterUndisturbed == [Enter EXCEPT !.incidents = 0, !.in_flight = <<>>]

\* C27: Recovery is idempotent: when reset_and_initialize_motors has run
\* without a failure of the link, running it once more without one leaves
\* is_idle, cycle_count and every register of both axes (error,
\* requested_state, control_mode, input_mode, current_lim, input_vel among
\* them) as the first run left them.
C27_RecoveryIdempotent ==
    (/\ Returned("reset_and_initialize_motors")
     /\ ~recovery_failed
     /\ link_up)
    => \A again \in reset_and_initialize_motors(EnterUndisturbed, FALSE) :
        /\ ~again.exc
        /\ ~again.recovery_failed
        /\ again.is_idle = is_idle
        /\ again.cycle_count = cycle_count
        /\ again.hw = hw

\* a Recovery run from an idle facade with a setpoint and a latched error in
\* the registers: it cleared the error and restarted the axes, and left
\* is_idle, the cycle count and the setpoint alone
C27_Witness ==
    /\ Returned("reset_and_initialize_motors")
    /\ ~recovery_failed
    /\ link_up
    /\ pre.is_idle /\ is_idle
    /\ pre.cycle_count > 0 /\ cycle_count = pre.cycle_count
    /\ \E a \in Axes : pre.hw[a]["error"] # 0 /\ hw[a]["error"] = 0
    /\ \A a \in Axes : pre.hw[a]["requested_state"] = AXIS_STATE_IDLE

\* operation i of the trace is a write of value to register reg of axis
\* that reached the controller
Wrote(i, axis, reg, value) ==
    IsWrite(trace[i], axis, reg) /\ trace[i].v = value /\ trace[i].ok

\* C28: within one stop() call the zero setpoint has been written to both
\* axes before the idle state is written to either, and is_idle becomes true
\* only after all four writes.
C28_StopZeroesBeforeIdle ==
    Returned("stop")
    => /\ \A i \in 1..Len(trace) :
            (trace[i].c = "w" /\ trace[i].r = "requested_state")
            => /\ trace[i].v = AXIS_STATE_IDLE
               /\ \E j \in 1..(i - 1) : Wrote(j, Left, "input_vel", 0)
               /\ \E j \in 1..(i - 1) : Wrote(j, Right, "input_vel", 0)
       /\ (is_idle /\ ~pre.is_idle)
            => /\ Len(trace) = 4
               /\ Wrote(1, Left, "input_vel", 0)
               /\ Wrote(2, Right, "input_vel", 0)
               /\ Wrote(3, Left, "requested_state", AXIS_STATE_IDLE)
               /\ Wrote(4, Right, "requested_state", AXIS_STATE_IDLE)

\* stop() on a moving robot: four writes, setpoints zeroed, axes idle
C28_Witness ==
    /\ Returned("stop")
    /\ ~pre.is_idle /\ is_idle
    /\ \A a \in Axes : pre.hw[a]["input_vel"] # 0 /\ hw[a]["input_vel"] = 0
    /\ \A a \in Axes : hw[a]["requested_state"] = AXIS_STATE_IDLE
    /\ Len(trace) = 4

\* clear_errors of axis is complete within the first n operations of the
\* trace: error 0 written, then requested_state 8
ClearedBy(n, axis) ==
    \E i \in 1..n : \E j \in (i + 1)..n :
        /\ Wrote(i, axis, "error", 0)
        /\ Wrote(j, axis, "requested_state", AXIS_STATE_CLOSED_LOOP_CONTROL)

\* C29: a non-zero command given while is_idle is true performs clear_errors
\* on both axes (error 0, then requested_state 8, for each) before any
\* velocity setpoint of that call is written, and leaves is_idle false.
C29_IdleFacadeRearmsFirst ==
    (/\ Returned("set_linear_angular_velocities")
     /\ call.args # <<0, 0>>
     /\ pre.is_idle)
    => /\ \A s \in 1..Len(trace) :
            (trace[s].c = "w" /\ trace[s].r = "input_vel")
            => ClearedBy(s - 1, Left) /\ ClearedBy(s - 1, Right)
       /\ ClearedBy(Len(trace), Left)
       /\ ClearedBy(Len(trace), Right)
       /\ ~is_idle

\* operation i of the trace writes one of the registers start_motors_*
\* configures: control mode, input mode, ramp rate, velocity limit, current
\* limit
IsConfigurationWrite(i) ==
    /\ trace[i].c = "w"
    /\ trace[i].r \in {"control_mode", "input_mode", "vel_ramp_rate", "vel_limit",
                       "current_lim"}

\* operation i of the trace is a query of the diagnostic dump: the five
\* configuration registers read back
IsDumpQuery(i) ==
    /\ trace[i].c = "r"
    /\ trace[i].r \in {"control_mode", "input_mode", "vel_ramp_rate", "vel_limit",
                       "current_lim"}

\* clear_errors of axis is complete among the operations after s and up to n
ClearedBetween(s, n, axis) ==
    \E i \in (s + 1)..n : \E j \in (i + 1)..n :
        /\ Wrote(i, axis, "error", 0)
        /\ Wrote(j, axis, "requested_state", AXIS_STATE_CLOSED_LOOP_CONTROL)

\* C30: within one Recovery the link is re-opened first, then clear_errors is
\* completed on both axes, and only then are the control-mode, input-mode and
\* current-limit registers written; no configuration write to either axis
\* precedes the clear_errors of both axes, and the diagnostic dump of the
\* configuration comes last.
C30_RecoveryStepsInOrder ==
    pc = "returned"
    => \A s \in 1..Len(trace) :
        IsLog(trace[s], "Starting motor reset")
        => /\ s + 1 <= Len(trace) /\ trace[s + 1].c = "open"
           /\ \A i \in (s + 2)..Len(trace) :
                /\ trace[s + 1].ok
                /\ IsConfigurationWrite(i)
                    => ClearedBetween(s, i - 1, Left) /\ ClearedBetween(s, i - 1, Right)
                /\ IsDumpQuery(i)
                    => \A j \in (i + 1)..Len(trace) : trace[j].c # "w"
           /\ ~recovery_failed
                => /\ \A a \in Axes : \E i \in (s + 2)..Len(trace) :
                        IsWrite(trace[i], a, "current_lim") /\ trace[i].ok
                   /\ IsDumpQuery(Len(trace))

\* a Recovery that ran to its end inside a velocity command: the port
\* opened, the errors cleared, the configuration written and the dump made
C30_Witness ==
    /\ Returned("set_linear_angular_velocities")
    /\ call.recoveries = 1
    /\ ~recovery_failed
    /\ \E s \in 1..Len(trace) :
        /\ IsLog(trace[s], "Starting motor reset")
        /\ trace[s + 1].c = "open" /\ trace[s + 1].ok
        /\ \E i \in (s + 2)..Len(trace) : IsConfigurationWrite(i)
    /\ IsDumpQuery(Len(trace))

\* C31: after a Recovery that completed, the velocity setpoint the hardware
\* holds is zero on both axes, however the Recovery was reached: the axes
\* are never re-armed with a non-zero setpoint written earlier still in place.
C31_RecoveryLeavesZeroSetpoints ==
    (pc = "returned" /\ call.recoveries >= 1 /\ ~recovery_failed)
    => \A a \in Axes : hw[a]["input_vel"] = 0

\* C32: has_errors returns True whenever the error register of an axis is
\* non-zero, in whichever format the register is printed: stripping the
\* non-digit characters never turns such a reply into the integer 0.
C32_NonZeroRegisterIsReported ==
    (Returned("has_errors") /\ call.args[2] # 0) => call.flag

\* the velocity setpoint the controller holds is zero on both axes
SetpointsZero == \A a \in Axes : hw[a]["input_vel"] = 0

C34_HandlerStopsMotors ==
    signalled => "stop_motors_on_exit" \in stop_calls

\* C35: in every driver program, whenever main() has returned or unwound
\* after constructing its MotorControl, stop() has been called on it.
C35_MainAlwaysStops ==
    (app \in {"remote_control", "backshot", "backshot2", "controller_control"}
     /\ at["main"] = "done")
    => stop_calls # {}

\* C36: once the input is released after motion, the smoothed command
\* passed to set_linear_angular_velocities eventually is exactly (0.0, 0.0),
\* so that the zero fast path is eventually taken.
C36_SmoothedCommandReachesZero ==
    <>(call.name = "set_linear_angular_velocities" /\ call.flag)

\* C37: in backshot2 the command and the analog values of one round of the
\* main loop come from the same sample of the controller: a movement
\* command is never given the default intensity 1.0 (a full-speed target)
\* while no stick or trigger was ever pushed that far.
C37_CommandAndIntensityFromOneSample ==
    loop.last_command \in {"w", "s", "a", "d"} => loop.intensity # 100

\* C38: in backshot2, whenever main reads the command while the controller
\* thread has sampled the Options button held, the command is 'q' and the
\* loop quits, and whenever it has sampled the X button held (Options not),
\* the command is 'x' and the targets are set to (0, 0), whether or not a
\* stick or a trigger is active.
C38_ButtonsAlwaysObeyed ==
    [][/\ (at["main"] = "loop" /\ at'["main"] = "analog")
          => /\ controller_input.buttons[9] => loop'.cmd = "q"
             /\ (controller_input.buttons[0] /\ ~controller_input.buttons[9])
                    => loop'.cmd = "x"
       /\ (at["main"] = "decide" /\ loop.cmd = "q") => at'["main"] = "done"
       /\ (at["main"] = "decide" /\ at'["main"] = "loop" /\ loop.cmd = "x")
          => (loop'.target_linear = 0 /\ loop'.target_angular = 0)]_vars

\* C39: in test_remote a watchdog timeout is recoverable: once watchdog_check
\* has returned False, renewed joystick input leads to
\* process_joystick_input being called again and last_activity_time being
\* refreshed, unless the input is taken back first (the stick let go, the
\* joystick unplugged or the emergency button pressed).
RenewedInput == device.plugged /\ device.stick > deadzone /\ ~device.button_b

C39_WatchdogTimeoutRecovers ==
    (remote.step = "watchdog stop" /\ RenewedInput)
    ~> (\/ remote.step = "processed" /\ remote.time_since_activity <= control_loop_rate
        \/ ~RenewedInput)
====
